---------------------------- MODULE Spec2Model ----------------------------
(***************************************************************************)
(* Batched artifact pipeline of the SBI letter automation backend:         *)
(*   POST /email/send, POST /email/bulk-send, EmailService.sendBulkEmails, *)
(*   POST /letters/generate, POST /letters/bulk-generate.                  *)
(* One request is modelled from the moment its handler starts until it     *)
(* responds.  The mailer transport, the template renderer and the PDF      *)
(* renderer are collaborators whose outcome is chosen nondeterministically *)
(* at each call.  Time is a clock in milliseconds that the handlers'       *)
(* setTimeout awaits advance by exactly the requested delay (a timer never *)
(* fires early, so this is the shortest separation a run can show).        *)
(***************************************************************************)
EXTENDS Integers, Sequences, FiniteSets, TLC

VARIABLES
  route,        \* which handler serves the request
  customers,    \* req.body.customers (emailData for sendBulkEmails)
  options,      \* req.body.options after validation
  transporter,  \* EmailService.transporter is set (credentials configured)
  pc,           \* position of the handler
  i,            \* loop variable i (send, generate, sendBulkEmails) / position in the batch
  batchIndex,   \* batchIndex of the bulk routes (1-based here)
  batches,      \* the batches array of the bulk routes
  batchResults, \* batchResults / batchLetters of the current batch
  results,      \* results / allResults / letters / allLetters
  errors,       \* errors / allErrors of the letter routes
  now,          \* clock, ms since the request started
  itemPc,       \* sendBulkEmails: position of each async callback of the current batch
  itemResult,   \* sendBulkEmails: value each callback's promise resolved to
  completed,    \* sendBulkEmails: order in which the callbacks of the latest batch settled
  batchStart,   \* sendBulkEmails: clock when the callbacks of the batch were created
  calls,        \* history: number of sendLetter invocations per account
  sendAt,       \* history: clock of the sendLetter invocation per account (-1: none)
  doneAt,       \* history: clock at which the account's result was recorded (-1: none)
  raised,       \* history: what transporter.sendMail raised for the account
  response,     \* what the handler answered (NoResponse until then)
  pdfRaised,    \* history: what pdfService.generateLetterPDF raised for the account
  body,         \* req.body as received: what the validation middleware inspects
  today,        \* the day on which the rules are evaluated (new Date())
  verdict,      \* what each rule evaluator decided for a single customer
  ruleFiltered, \* /analyze: ruleFiltered
  analysisResult, \* /analyze: analysisResult
  aiCalls,      \* history: the lists handed to aiService.analyzeCustomers
  ruleEvals,    \* history: number of customers the rule filter was applied to
  ruleBasedResults, \* browser analyzeCustomers: ruleBasedResults
  finalResults, \* browser analyzeCustomers: finalResults
  fetchCalls,   \* history: the bodies POSTed by performAIAnalysis
  geminiKey,    \* process.env.GEMINI_API_KEY is set
  aiOutcome,    \* history: how the last aiService.analyzeCustomers call settled
  rerun,        \* what the rule evaluators decided when run a second time
  page          \* the browser page while it starts up

vars == <<route, customers, options, transporter, pc, i, batchIndex, batches,
          batchResults, results, errors, now, itemPc, itemResult, completed,
          batchStart, calls, sendAt, doneAt, raised, response, pdfRaised, body,
          today, verdict, ruleFiltered, analysisResult, aiCalls, ruleEvals,
          ruleBasedResults, finalResults, fetchCalls, geminiKey, aiOutcome, rerun,
          page>>

\* state of the batched pipeline and of the request
pipelineVars == <<route, customers, options, transporter, pc, i, batchIndex, batches,
                  batchResults, results, errors, now, itemPc, itemResult, completed,
                  batchStart, calls, sendAt, doneAt, raised, response, pdfRaised, body>>

\* state of rule evaluation and classification, untouched by the pipeline
analysisVars == <<today, verdict, ruleFiltered, analysisResult, aiCalls, ruleEvals,
                  ruleBasedResults, finalResults, fetchCalls, geminiKey, aiOutcome,
                  rerun, page>>

pipelineVarsButPc == <<route, customers, options, transporter, i, batchIndex, batches,
                       batchResults, results, errors, now, itemPc, itemResult,
                       completed, batchStart, calls, sendAt, doneAt, raised, response,
                       pdfRaised, body>>

(***************************************************************************)
(* Bounds of the model.                                                    *)
(***************************************************************************)
MaxItems == 3
MaxBatch == 3
MaxConcurrentBound == 2
MaxScored == 2
MaxAnalyzed == 2

Undefined == "undefined"
NoResponse == [kind |-> "none"]
NoError == [message |-> Undefined, code |-> Undefined]
NoVerdict == [server |-> "pending", browser |-> "pending", priority |-> Undefined]
\* no scoring call has settled
NoOutcome == [kind |-> "none", message |-> Undefined, analysis |-> <<>>]
\* no second evaluation yet; elapsed counts the days since the first one
NoRerun == [server |-> "pending", browser |-> "pending", priority |-> Undefined,
            elapsed |-> 0]
\* no page is loading
NoPage == [readyState |-> "none"]

Min(a, b) == IF a < b THEN a ELSE b
Max(a, b) == IF a > b THEN a ELSE b

(***************************************************************************)
(* Inputs.  A customer is identified by its ACCOUNT_NO; EMAIL is either    *)
(* empty or an address.                                                    *)
(***************************************************************************)
Emails == {"", "c@sbi.example"}
CustomerLists ==
  UNION { { [k \in 1..n |-> [ACCOUNT_NO |-> k, EMAIL |-> e[k]]] : e \in [1..n -> Emails] }
          : n \in 1..MaxItems }

DelayChoices == {500, 1000}
BatchDelayChoices == {1000, 5000}

\* What transporter.sendMail can do: resolve, or reject with an error that
\* may or may not carry a code.
TransportErrors ==
  { [message |-> "Invalid login", code |-> "EAUTH"],
    [message |-> "Connection timeout", code |-> Undefined] }
TransportOutcomes == {NoError} \cup TransportErrors


(***************************************************************************)
(* EmailService.sendLetter: the error it throws for one call (NoError when *)
(* it resolves).  `outcome` is what transporter.sendMail did.  Without a   *)
(* transporter the transport is never reached.  A transport error is       *)
(* re-thrown as a fresh Error built from its message only.                 *)
(***************************************************************************)
sendLetter(outcome) ==
  IF ~transporter
    THEN [message |-> "Email service not configured. Please set EMAIL_USER and EMAIL_PASS in environment variables.",
          code |-> Undefined]
  ELSE IF outcome = NoError
    THEN NoError
  ELSE [message |-> "Email delivery failed: " \o outcome.message, code |-> Undefined]

\* What the transport raised during a sendLetter call (NoError when it was
\* not reached or resolved).
TransportRaised(outcome) == IF transporter THEN outcome ELSE NoError

HasEmail(c) == c.EMAIL # ""

\* a || b for strings, where "" and undefined are falsy
OrElse(a, b) == IF a = "" \/ a = Undefined THEN b ELSE a

\* Shape shared by every per-item email result; absent properties are Undefined.
EmailResult(customer, email, status, success, reason, error, errorCode) ==
  [customer |-> customer, email |-> email, status |-> status, success |-> success,
   reason |-> reason, error |-> error, errorCode |-> errorCode]

(***************************************************************************)
(* Array.prototype.slice(from, to) on a 1-based sequence, 0-based bounds.  *)
(***************************************************************************)
Slice(s, from, to) == SubSeq(s, from + 1, Min(to, Len(s)))

(***************************************************************************)
(* for (let i = 0; i < customers.length; i += batchSize)                   *)
(*   batches.push(customers.slice(i, i + batchSize));                      *)
(***************************************************************************)
RECURSIVE SplitFrom(_, _, _)
SplitFrom(items, from, batchSize) ==
  IF from >= Len(items) THEN <<>>
  ELSE <<Slice(items, from, from + batchSize)>> \o SplitFrom(items, from + batchSize, batchSize)

\* Variant of SplitBatches whose chunks end one item early:
\* customers.slice(i, i + batchSize - 1).
SplitBatchesShort(items, batchSize) ==
  [b \in 1..((Len(items) + batchSize - 1) \div batchSize) |->
     Slice(items, (b - 1) * batchSize, b * batchSize - 1)]

SplitBatches(items, batchSize) == SplitFrom(items, 0, batchSize)

RECURSIVE Flatten(_)
Flatten(ss) == IF ss = <<>> THEN <<>> ELSE Head(ss) \o Flatten(Tail(ss))

CountStatus(rs, status) == Cardinality({k \in 1..Len(rs) : rs[k].status = status})

\* Variant of EmailStats that counts every attempted send as sent.
EmailStatsAttemptedAsSent(cs, rs) ==
  [total |-> Len(cs),
   sent |-> CountStatus(rs, "sent") + CountStatus(rs, "failed"),
   failed |-> CountStatus(rs, "failed"),
   skipped |-> CountStatus(rs, "skipped")]

\* Variant of EmailStats that does not count the skipped items.
EmailStatsSkippedUncounted(cs, rs) ==
  [total |-> Len(cs),
   sent |-> CountStatus(rs, "sent"),
   failed |-> CountStatus(rs, "failed"),
   skipped |-> 0]

\* stats of /send and /bulk-send
EmailStats(cs, rs) ==
  [total |-> Len(cs),
   sent |-> CountStatus(rs, "sent"),
   failed |-> CountStatus(rs, "failed"),
   skipped |-> CountStatus(rs, "skipped")]

(***************************************************************************)
(* History bookkeeping of one sendLetter invocation for account a.         *)
(***************************************************************************)
NoteCall(a, outcome) ==
  /\ calls' = [calls EXCEPT ![a] = @ + 1]
  /\ sendAt' = [sendAt EXCEPT ![a] = now]
  /\ raised' = [raised EXCEPT ![a] = TransportRaised(outcome)]

-----------------------------------------------------------------------------
(***************************************************************************)
(* POST /email/send                                                        *)
(***************************************************************************)
delayBetweenEmails == IF options.delayMs = 0 THEN 1000 ELSE options.delayMs

SendSkippedResult(c) ==
  EmailResult(c.ACCOUNT_NO, "N/A", "skipped", Undefined,
              "No email address provided", Undefined, Undefined)

\* try { await sendLetter; push sent } catch (emailError) { push failed }
SendOutcomeResult(c, err) ==
  IF err = NoError
    THEN EmailResult(c.ACCOUNT_NO, c.EMAIL, "sent", Undefined, Undefined, Undefined, Undefined)
    ELSE EmailResult(c.ACCOUNT_NO, c.EMAIL, "failed", Undefined, Undefined,
                     err.message, OrElse(err.code, "UNKNOWN"))

SendStart ==
  /\ route = "send" /\ pc = "start"
  /\ results' = <<>>
  /\ i' = 1
  /\ pc' = "loop"
  /\ UNCHANGED <<body, pdfRaised, analysisVars, route, customers, options, transporter, batchIndex, batches,
                 batchResults, errors, now, itemPc, itemResult, completed,
                 batchStart, calls, sendAt, doneAt, raised, response>>

\* if (!customer.EMAIL) { results.push(skipped); continue; }
SendSkip ==
  /\ route = "send" /\ pc = "loop" /\ i <= Len(customers)
  /\ ~HasEmail(customers[i])
  /\ results' = Append(results, SendSkippedResult(customers[i]))
  /\ doneAt' = [doneAt EXCEPT ![customers[i].ACCOUNT_NO] = now]
  /\ i' = i + 1
  /\ UNCHANGED <<body, pdfRaised, analysisVars, route, customers, options, transporter, pc, batchIndex, batches,
                 batchResults, errors, now, itemPc, itemResult, completed,
                 batchStart, calls, sendAt, raised, response>>

\* if (i > 0) await new Promise(resolve => setTimeout(resolve, delayBetweenEmails))
SendDelay ==
  /\ route = "send" /\ pc = "loop" /\ i <= Len(customers)
  /\ HasEmail(customers[i]) /\ i > 1
  /\ now' = now + delayBetweenEmails
  /\ pc' = "send"
  /\ UNCHANGED <<body, pdfRaised, analysisVars, route, customers, options, transporter, i, batchIndex, batches,
                 batchResults, results, errors, itemPc, itemResult, completed,
                 batchStart, calls, sendAt, doneAt, raised, response>>

\* Variant of SendLetterStep that sends again when sendLetter throws.
SendLetterStepRetry ==
  /\ route = "send" /\ i <= Len(customers)
  /\ \/ pc = "send"
     \/ pc = "loop" /\ HasEmail(customers[i]) /\ i = 1
  /\ \E outcome \in TransportOutcomes :
       /\ NoteCall(customers[i].ACCOUNT_NO, outcome)
       /\ IF sendLetter(outcome) = NoError
            THEN /\ results' = Append(results, SendOutcomeResult(customers[i], NoError))
                 /\ doneAt' = [doneAt EXCEPT ![customers[i].ACCOUNT_NO] = now]
                 /\ i' = i + 1
                 /\ pc' = "loop"
            ELSE /\ pc' = "send"
                 /\ UNCHANGED <<results, doneAt, i>>
  /\ UNCHANGED <<body, pdfRaised, analysisVars, route, customers, options, transporter, batchIndex, batches,
                 batchResults, errors, now, itemPc, itemResult, completed,
                 batchStart, response>>

\* await emailService.sendLetter(...) and the push of its result
SendLetterStep ==
  /\ route = "send" /\ i <= Len(customers)
  /\ \/ pc = "send"
     \/ pc = "loop" /\ HasEmail(customers[i]) /\ i = 1
  /\ \E outcome \in TransportOutcomes :
       /\ NoteCall(customers[i].ACCOUNT_NO, outcome)
       /\ results' = Append(results, SendOutcomeResult(customers[i], sendLetter(outcome)))
  /\ doneAt' = [doneAt EXCEPT ![customers[i].ACCOUNT_NO] = now]
  /\ i' = i + 1
  /\ pc' = "loop"
  /\ UNCHANGED <<body, pdfRaised, analysisVars, route, customers, options, transporter, batchIndex, batches,
                 batchResults, errors, now, itemPc, itemResult, completed,
                 batchStart, response>>

SendRespond ==
  /\ route = "send" /\ pc = "loop" /\ i > Len(customers)
  /\ response' = [kind |-> "json", success |-> TRUE,
                  statistics |-> EmailStats(customers, results),
                  results |-> results]
  /\ pc' = "done"
  /\ UNCHANGED <<body, pdfRaised, analysisVars, route, customers, options, transporter, i, batchIndex, batches,
                 batchResults, results, errors, now, itemPc, itemResult, completed,
                 batchStart, calls, sendAt, doneAt, raised>>

-----------------------------------------------------------------------------
(***************************************************************************)
(* POST /email/bulk-send                                                   *)
(***************************************************************************)
DefaultEmailBatchSize == 5
DefaultBatchDelayMs == 5000
IntraBatchDelayMs == 500

EmailBatchSize == IF options.batchSize = 0 THEN DefaultEmailBatchSize ELSE options.batchSize
delayBetweenBatches ==
  IF options.batchDelayMs = 0 THEN DefaultBatchDelayMs ELSE options.batchDelayMs

BulkSkippedResult(c) ==
  EmailResult(c.ACCOUNT_NO, Undefined, "skipped", Undefined,
              "No email address", Undefined, Undefined)

\* try { await sendLetter; push sent } catch (error) { push failed }
BulkOutcomeResult(c, err) ==
  IF err = NoError
    THEN EmailResult(c.ACCOUNT_NO, c.EMAIL, "sent", Undefined, Undefined, Undefined, Undefined)
    ELSE EmailResult(c.ACCOUNT_NO, c.EMAIL, "failed", Undefined, Undefined,
                     err.message, Undefined)

\* setTimeout(resolve, 500) after each send of a batch
BulkItemPause == IntraBatchDelayMs

BulkStart ==
  /\ route = "bulkSend" /\ pc = "start"
  /\ batches' = SplitBatches(customers, EmailBatchSize)
  /\ results' = <<>>
  /\ batchIndex' = 1
  /\ pc' = "batch"
  /\ UNCHANGED <<body, pdfRaised, analysisVars, route, customers, options, transporter, i, batchResults, errors,
                 now, itemPc, itemResult, completed, batchStart, calls, sendAt,
                 doneAt, raised, response>>

\* const batch = batches[batchIndex]; const batchResults = [];
BulkBatchBegin ==
  /\ route = "bulkSend" /\ pc = "batch" /\ batchIndex <= Len(batches)
  /\ batchResults' = <<>>
  /\ i' = 1
  /\ pc' = "item"
  /\ UNCHANGED <<body, pdfRaised, analysisVars, route, customers, options, transporter, batchIndex, batches,
                 results, errors, now, itemPc, itemResult, completed, batchStart,
                 calls, sendAt, doneAt, raised, response>>

\* if (!customer.EMAIL) { batchResults.push(skipped); continue; }
BulkSkip ==
  /\ route = "bulkSend" /\ pc = "item" /\ i <= Len(batches[batchIndex])
  /\ ~HasEmail(batches[batchIndex][i])
  /\ batchResults' = Append(batchResults, BulkSkippedResult(batches[batchIndex][i]))
  /\ doneAt' = [doneAt EXCEPT ![batches[batchIndex][i].ACCOUNT_NO] = now]
  /\ i' = i + 1
  /\ UNCHANGED <<body, pdfRaised, analysisVars, route, customers, options, transporter, pc, batchIndex, batches,
                 results, errors, now, itemPc, itemResult, completed, batchStart,
                 calls, sendAt, raised, response>>

\* Variant of BulkSendLetter without the inner try/catch: the error reaches
\* catch (batchError), which abandons the batch and goes on with the next one.
BulkSendLetterNoCatch ==
  /\ route = "bulkSend" /\ pc = "item" /\ i <= Len(batches[batchIndex])
  /\ HasEmail(batches[batchIndex][i])
  /\ \E outcome \in TransportOutcomes :
       /\ NoteCall(batches[batchIndex][i].ACCOUNT_NO, outcome)
       /\ IF sendLetter(outcome) = NoError
            THEN /\ batchResults' = Append(batchResults,
                                           BulkOutcomeResult(batches[batchIndex][i], NoError))
                 /\ pc' = "pause"
                 /\ UNCHANGED batchIndex
            ELSE /\ pc' = "batch"
                 /\ batchIndex' = batchIndex + 1
                 /\ UNCHANGED batchResults
  /\ doneAt' = [doneAt EXCEPT ![batches[batchIndex][i].ACCOUNT_NO] = now]
  /\ UNCHANGED <<body, pdfRaised, analysisVars, route, customers, options, transporter, i, batches,
                 results, errors, now, itemPc, itemResult, completed, batchStart,
                 response>>

BulkSendLetter ==
  /\ route = "bulkSend" /\ pc = "item" /\ i <= Len(batches[batchIndex])
  /\ HasEmail(batches[batchIndex][i])
  /\ \E outcome \in TransportOutcomes :
       /\ NoteCall(batches[batchIndex][i].ACCOUNT_NO, outcome)
       /\ batchResults' = Append(batchResults,
                                 BulkOutcomeResult(batches[batchIndex][i], sendLetter(outcome)))
  /\ doneAt' = [doneAt EXCEPT ![batches[batchIndex][i].ACCOUNT_NO] = now]
  /\ pc' = "pause"
  /\ UNCHANGED <<body, pdfRaised, analysisVars, route, customers, options, transporter, i, batchIndex, batches,
                 results, errors, now, itemPc, itemResult, completed, batchStart,
                 response>>

\* await new Promise(resolve => setTimeout(resolve, 500))
BulkItemDelay ==
  /\ route = "bulkSend" /\ pc = "pause"
  /\ now' = now + BulkItemPause
  /\ i' = i + 1
  /\ pc' = "item"
  /\ UNCHANGED <<body, pdfRaised, analysisVars, route, customers, options, transporter, batchIndex, batches,
                 batchResults, results, errors, itemPc, itemResult, completed,
                 batchStart, calls, sendAt, doneAt, raised, response>>

\* allResults.push(...batchResults); then the pause before the next batch, if any
BulkBatchEnd ==
  /\ route = "bulkSend" /\ pc = "item" /\ i > Len(batches[batchIndex])
  /\ results' = results \o batchResults
  /\ IF batchIndex < Len(batches)
       THEN pc' = "batchDelay" /\ UNCHANGED batchIndex
       ELSE pc' = "batch" /\ batchIndex' = batchIndex + 1
  /\ UNCHANGED <<body, pdfRaised, analysisVars, route, customers, options, transporter, i, batches, batchResults,
                 errors, now, itemPc, itemResult, completed, batchStart, calls,
                 sendAt, doneAt, raised, response>>

\* Variant of BulkBatchDelay whose timer is never resolved.
BulkBatchDelayNeverResolves ==
  /\ route = "bulkSend" /\ pc = "batchDelay"
  /\ UNCHANGED vars

\* await new Promise(resolve => setTimeout(resolve, delayBetweenBatches))
BulkBatchDelay ==
  /\ route = "bulkSend" /\ pc = "batchDelay"
  /\ now' = now + delayBetweenBatches
  /\ batchIndex' = batchIndex + 1
  /\ pc' = "batch"
  /\ UNCHANGED <<body, pdfRaised, analysisVars, route, customers, options, transporter, i, batches, batchResults,
                 results, errors, itemPc, itemResult, completed, batchStart, calls,
                 sendAt, doneAt, raised, response>>

BulkRespond ==
  /\ route = "bulkSend" /\ pc = "batch" /\ batchIndex > Len(batches)
  /\ response' = [kind |-> "json", success |-> TRUE,
                  statistics |-> EmailStats(customers, results),
                  results |-> results]
  /\ pc' = "done"
  /\ UNCHANGED <<body, pdfRaised, analysisVars, route, customers, options, transporter, i, batchIndex, batches,
                 batchResults, results, errors, now, itemPc, itemResult, completed,
                 batchStart, calls, sendAt, doneAt, raised>>

-----------------------------------------------------------------------------
(***************************************************************************)
(* EmailService.sendBulkEmails(emailData, options).  Here i is the 0-based *)
(* offset of the current batch, and callback k of the batch handles        *)
(* emailData[i + k - 1].                                                   *)
(***************************************************************************)
DefaultServiceDelayMs == 1000
DefaultMaxConcurrent == 3

delayMs == IF options.delayMs = 0 THEN DefaultServiceDelayMs ELSE options.delayMs
maxConcurrent ==
  IF options.maxConcurrent = 0 THEN DefaultMaxConcurrent ELSE options.maxConcurrent

\* const batch = emailData.slice(i, i + maxConcurrent)
ServiceBatch(offset) == Slice(customers, offset, offset + maxConcurrent)

\* setTimeout(resolve, index * (delayMs / maxConcurrent)), index 0-based
StaggerDelay(index) == (index * delayMs) \div maxConcurrent

\* value the async callback returns
ServiceOutcomeResult(c, err) ==
  IF err = NoError
    THEN EmailResult(c.ACCOUNT_NO, c.EMAIL, Undefined, TRUE, Undefined, Undefined, Undefined)
    ELSE EmailResult(c.ACCOUNT_NO, c.EMAIL, Undefined, FALSE, Undefined, err.message, Undefined)

\* Variant of PromiseAll that collects the values as the promises settle.
PromiseAllBySettlement(values, settled) == [k \in 1..Len(settled) |-> values[settled[k]]]

\* Promise.all: the values in the order of the promises, not of settlement
PromiseAll(values, settled) == values

\* Variant of AllSettled that lets the batch go on as soon as one promise has
\* resolved (Promise.race / Promise.any in place of Promise.all).
AnySettled(pcs) == \E k \in DOMAIN pcs : pcs[k] = "done"

\* Promise.all resolves once every promise of the batch has resolved
AllSettled(pcs) == \A k \in DOMAIN pcs : pcs[k] = "done"

ServiceStart ==
  /\ route = "sendBulkEmails" /\ pc = "start"
  /\ IF ~transporter
       THEN /\ response' = [kind |-> "throw", message |-> "Email service not configured"]
            /\ pc' = "done"
            /\ UNCHANGED <<results, i>>
       ELSE /\ results' = <<>>
            /\ i' = 0
            /\ pc' = "batch"
            /\ UNCHANGED response
  /\ UNCHANGED <<body, pdfRaised, analysisVars, route, customers, options, transporter, batchIndex, batches,
                 batchResults, errors, now, itemPc, itemResult, completed,
                 batchStart, calls, sendAt, doneAt, raised>>

\* batch.map(async (data, index) => ...): every callback runs up to its timer
ServiceBatchBegin ==
  /\ route = "sendBulkEmails" /\ pc = "batch" /\ i < Len(customers)
  /\ itemPc' = [k \in 1..Len(ServiceBatch(i)) |-> "timer"]
  /\ itemResult' = [k \in 1..Len(ServiceBatch(i)) |-> Undefined]
  /\ completed' = <<>>
  /\ batchStart' = now
  /\ pc' = "await"
  /\ UNCHANGED <<body, pdfRaised, analysisVars, route, customers, options, transporter, i, batchIndex, batches,
                 batchResults, results, errors, now, calls, sendAt, doneAt, raised,
                 response>>

\* The stagger timer of callback k fires (timers fire in due order) and the
\* callback invokes sendLetter, which stays in flight.
ServiceTimerFire(k) ==
  /\ route = "sendBulkEmails" /\ pc = "await"
  /\ k \in DOMAIN itemPc /\ itemPc[k] = "timer"
  /\ \A j \in DOMAIN itemPc : j < k => itemPc[j] # "timer"
  /\ now' = Max(now, batchStart + StaggerDelay(k - 1))
  /\ calls' = [calls EXCEPT ![customers[i + k].ACCOUNT_NO] = @ + 1]
  /\ sendAt' = [sendAt EXCEPT ![customers[i + k].ACCOUNT_NO] = now']
  /\ itemPc' = [itemPc EXCEPT ![k] = "sending"]
  /\ UNCHANGED <<body, pdfRaised, analysisVars, route, customers, options, transporter, pc, i, batchIndex, batches,
                 batchResults, results, errors, itemResult, completed, batchStart,
                 doneAt, raised, response>>

\* sendLetter of callback k settles; the callback returns its result object
ServiceSendSettle(k) ==
  /\ route = "sendBulkEmails" /\ pc = "await"
  /\ k \in DOMAIN itemPc /\ itemPc[k] = "sending"
  /\ \E outcome \in TransportOutcomes :
       /\ raised' = [raised EXCEPT ![customers[i + k].ACCOUNT_NO] = TransportRaised(outcome)]
       /\ itemResult' = [itemResult EXCEPT
                           ![k] = ServiceOutcomeResult(customers[i + k], sendLetter(outcome))]
  /\ itemPc' = [itemPc EXCEPT ![k] = "done"]
  /\ completed' = Append(completed, k)
  /\ doneAt' = [doneAt EXCEPT ![customers[i + k].ACCOUNT_NO] = now]
  /\ UNCHANGED <<body, pdfRaised, analysisVars, route, customers, options, transporter, pc, i, batchIndex, batches,
                 batchResults, results, errors, now, batchStart, calls, sendAt,
                 response>>

\* const batchResults = await Promise.all(batchPromises); results.push(...batchResults)
ServiceBatchEnd ==
  /\ route = "sendBulkEmails" /\ pc = "await"
  /\ AllSettled(itemPc)
  /\ results' = results \o PromiseAll(itemResult, completed)
  /\ itemPc' = <<>>
  /\ itemResult' = <<>>
  /\ IF i + maxConcurrent < Len(customers)
       THEN pc' = "delay" /\ UNCHANGED i
       ELSE pc' = "batch" /\ i' = i + maxConcurrent
  /\ UNCHANGED <<body, pdfRaised, analysisVars, route, customers, options, transporter, batchIndex, batches,
                 batchResults, errors, now, completed, batchStart, calls, sendAt,
                 doneAt, raised, response>>

\* await new Promise(resolve => setTimeout(resolve, delayMs))
ServiceBatchDelay ==
  /\ route = "sendBulkEmails" /\ pc = "delay"
  /\ now' = now + delayMs
  /\ i' = i + maxConcurrent
  /\ pc' = "batch"
  /\ UNCHANGED <<body, pdfRaised, analysisVars, route, customers, options, transporter, batchIndex, batches,
                 batchResults, results, errors, itemPc, itemResult, completed,
                 batchStart, calls, sendAt, doneAt, raised, response>>

ServiceReturn ==
  /\ route = "sendBulkEmails" /\ pc = "batch" /\ i >= Len(customers)
  /\ response' = [kind |-> "return", results |-> results]
  /\ pc' = "done"
  /\ UNCHANGED <<body, pdfRaised, analysisVars, route, customers, options, transporter, i, batchIndex, batches,
                 batchResults, results, errors, now, itemPc, itemResult, completed,
                 batchStart, calls, sendAt, doneAt, raised>>

-----------------------------------------------------------------------------
(***************************************************************************)
(* POST /letters/generate                                                  *)
(***************************************************************************)
RenderOutcomes == {NoError, [message |-> "Template rendering failed", code |-> Undefined]}
PdfOutcomes == {NoError, [message |-> "PDF generation failed: out of memory", code |-> Undefined]}

\* letterResult after the optional PDF step
LetterResult(c, pdfErr) ==
  [customerId |-> c.ACCOUNT_NO,
   content |-> "letter text",
   pdfBase64 |-> IF options.generatePDF /\ pdfErr = NoError THEN "pdf bytes" ELSE Undefined,
   pdfError |-> IF options.generatePDF /\ pdfErr # NoError THEN pdfErr.message ELSE Undefined]

\* errors.push({ customer: customer.ACCOUNT_NO || customer.NAME, error: letterError.message })
LetterError(c, err) == [customer |-> c.ACCOUNT_NO, error |-> err.message]

\* Variant of GenerateStats that reports every requested letter as successful.
GenerateStatsRequestedAsSuccessful(cs, letters, errs) ==
  [totalRequested |-> Len(cs), successful |-> Len(cs), failed |-> Len(errs)]

\* statistics of the /generate response
GenerateStats(cs, letters, errs) ==
  [totalRequested |-> Len(cs), successful |-> Len(letters), failed |-> Len(errs)]

GenerateStart ==
  /\ route = "generate" /\ pc = "start"
  /\ results' = <<>>
  /\ errors' = <<>>
  /\ i' = 1
  /\ pc' = "loop"
  /\ UNCHANGED <<body, pdfRaised, analysisVars, route, customers, options, transporter, batchIndex, batches,
                 batchResults, now, itemPc, itemResult, completed, batchStart,
                 calls, sendAt, doneAt, raised, response>>

\* Variant of GenerateItem without the inner try/catch around the PDF step: a
\* PDF failure reaches the outer catch and the item is recorded as an error.
GenerateItemPdfFatal ==
  /\ route = "generate" /\ pc = "loop" /\ i <= Len(customers)
  /\ \E renderErr \in RenderOutcomes, pdfErr \in PdfOutcomes :
       /\ raised' = [raised EXCEPT ![customers[i].ACCOUNT_NO] = renderErr]
       /\ pdfRaised' = IF renderErr = NoError /\ options.generatePDF
                          THEN [pdfRaised EXCEPT ![customers[i].ACCOUNT_NO] = pdfErr]
                          ELSE pdfRaised
       /\ IF renderErr = NoError /\ ~(options.generatePDF /\ pdfErr # NoError)
            THEN /\ results' = Append(results, LetterResult(customers[i], pdfErr))
                 /\ UNCHANGED errors
            ELSE /\ errors' = Append(errors, LetterError(customers[i],
                                       IF renderErr # NoError THEN renderErr ELSE pdfErr))
                 /\ UNCHANGED results
  /\ calls' = [calls EXCEPT ![customers[i].ACCOUNT_NO] = @ + 1]
  /\ i' = i + 1
  /\ UNCHANGED <<body, analysisVars, route, customers, options, transporter, pc,
                 batchIndex, batches, batchResults, now, itemPc, itemResult,
                 completed, batchStart, sendAt, doneAt, response>>

\* one iteration: generateLetterContent, then generateLetterPDF when requested
GenerateItem ==
  /\ route = "generate" /\ pc = "loop" /\ i <= Len(customers)
  /\ \E renderErr \in RenderOutcomes, pdfErr \in PdfOutcomes :
       /\ raised' = [raised EXCEPT ![customers[i].ACCOUNT_NO] = renderErr]
       /\ pdfRaised' = IF renderErr = NoError /\ options.generatePDF
                          THEN [pdfRaised EXCEPT ![customers[i].ACCOUNT_NO] = pdfErr]
                          ELSE pdfRaised
       /\ IF renderErr = NoError
            THEN /\ results' = Append(results, LetterResult(customers[i], pdfErr))
                 /\ UNCHANGED errors
            ELSE /\ errors' = Append(errors, LetterError(customers[i], renderErr))
                 /\ UNCHANGED results
  /\ calls' = [calls EXCEPT ![customers[i].ACCOUNT_NO] = @ + 1]
  /\ i' = i + 1
  /\ UNCHANGED <<body, analysisVars, route, customers, options, transporter, pc, batchIndex, batches,
                 batchResults, now, itemPc, itemResult, completed, batchStart,
                 sendAt, doneAt, response>>

GenerateRespond ==
  /\ route = "generate" /\ pc = "loop" /\ i > Len(customers)
  /\ response' = [kind |-> "json", success |-> TRUE,
                  count |-> Len(results),
                  letters |-> results,
                  errors |-> IF Len(errors) > 0 THEN errors ELSE Undefined,
                  statistics |-> GenerateStats(customers, results, errors)]
  /\ pc' = "done"
  /\ UNCHANGED <<body, pdfRaised, analysisVars, route, customers, options, transporter, i, batchIndex, batches,
                 batchResults, results, errors, now, itemPc, itemResult, completed,
                 batchStart, calls, sendAt, doneAt, raised>>

-----------------------------------------------------------------------------
(***************************************************************************)
(* POST /letters/bulk-generate                                             *)
(***************************************************************************)
DefaultLetterBatchSize == 10

LetterBatchSize == IF options.batchSize = 0 THEN DefaultLetterBatchSize ELSE options.batchSize

BulkLetter(c) == [customerId |-> c.ACCOUNT_NO, content |-> "letter text"]

BulkGenerateStart ==
  /\ route = "bulkGenerate" /\ pc = "start"
  /\ batches' = SplitBatches(customers, LetterBatchSize)
  /\ results' = <<>>
  /\ errors' = <<>>
  /\ batchIndex' = 1
  /\ pc' = "batch"
  /\ UNCHANGED <<body, pdfRaised, analysisVars, route, customers, options, transporter, i, batchResults, now,
                 itemPc, itemResult, completed, batchStart, calls, sendAt, doneAt,
                 raised, response>>

BulkGenerateBatchBegin ==
  /\ route = "bulkGenerate" /\ pc = "batch" /\ batchIndex <= Len(batches)
  /\ batchResults' = <<>>
  /\ i' = 1
  /\ pc' = "item"
  /\ UNCHANGED <<body, pdfRaised, analysisVars, route, customers, options, transporter, batchIndex, batches,
                 results, errors, now, itemPc, itemResult, completed, batchStart,
                 calls, sendAt, doneAt, raised, response>>

\* for (const customer of batch) try { batchLetters.push } catch { allErrors.push }
BulkGenerateItem ==
  /\ route = "bulkGenerate" /\ pc = "item" /\ i <= Len(batches[batchIndex])
  /\ \E renderErr \in RenderOutcomes :
       /\ raised' = [raised EXCEPT ![batches[batchIndex][i].ACCOUNT_NO] = renderErr]
       /\ IF renderErr = NoError
            THEN /\ batchResults' = Append(batchResults, BulkLetter(batches[batchIndex][i]))
                 /\ UNCHANGED errors
            ELSE /\ errors' = Append(errors, LetterError(batches[batchIndex][i], renderErr))
                 /\ UNCHANGED batchResults
  /\ calls' = [calls EXCEPT ![batches[batchIndex][i].ACCOUNT_NO] = @ + 1]
  /\ i' = i + 1
  /\ UNCHANGED <<body, pdfRaised, analysisVars, route, customers, options, transporter, pc, batchIndex, batches,
                 results, now, itemPc, itemResult, completed, batchStart, sendAt,
                 doneAt, response>>

\* allLetters.push(...batchLetters)
BulkGenerateBatchEnd ==
  /\ route = "bulkGenerate" /\ pc = "item" /\ i > Len(batches[batchIndex])
  /\ results' = results \o batchResults
  /\ batchIndex' = batchIndex + 1
  /\ pc' = "batch"
  /\ UNCHANGED <<body, pdfRaised, analysisVars, route, customers, options, transporter, i, batches, batchResults,
                 errors, now, itemPc, itemResult, completed, batchStart, calls,
                 sendAt, doneAt, raised, response>>

BulkGenerateRespond ==
  /\ route = "bulkGenerate" /\ pc = "batch" /\ batchIndex > Len(batches)
  /\ response' = [kind |-> "json", success |-> TRUE,
                  summary |-> [totalRequested |-> Len(customers),
                               totalGenerated |-> Len(results),
                               totalErrors |-> Len(errors),
                               batchesProcessed |-> Len(batches),
                               batchSize |-> LetterBatchSize],
                  letters |-> results,
                  errors |-> IF Len(errors) > 0 THEN errors ELSE Undefined]
  /\ pc' = "done"
  /\ UNCHANGED <<body, pdfRaised, analysisVars, route, customers, options, transporter, i, batchIndex, batches,
                 batchResults, results, errors, now, itemPc, itemResult, completed,
                 batchStart, calls, sendAt, doneAt, raised>>

-----------------------------------------------------------------------------
(***************************************************************************)
(* JavaScript values of a customer field.  A value is undefined, a number  *)
(* (NaN included) or a string; a string is the sequence of its characters. *)
(* Numbers are integers here: no field of the model carries a fraction.    *)
(***************************************************************************)
Missing == [t |-> "undefined", n |-> 0, s |-> <<>>]
NaN == [t |-> "NaN", n |-> 0, s |-> <<>>]
Num(x) == [t |-> "number", n |-> x, s |-> <<>>]
Str(chars) == [t |-> "string", n |-> 0, s |-> chars]

\* ToBoolean: undefined, 0, NaN and "" are falsy
Truthy(v) ==
  CASE v.t = "number" -> v.n # 0
    [] v.t = "string" -> v.s # <<>>
    [] OTHER -> FALSE

\* a || b
JsOr(a, b) == IF Truthy(a) THEN a ELSE b

Digits == <<"0", "1", "2", "3", "4", "5", "6", "7", "8", "9">>
IsDigit(ch) == \E d \in 1..10 : Digits[d] = ch
DigitValue(ch) == (CHOOSE d \in 1..10 : Digits[d] = ch) - 1

\* number of leading digits of the character sequence
RECURSIVE DigitRun(_)
DigitRun(chars) ==
  IF chars = <<>> \/ ~IsDigit(Head(chars)) THEN 0 ELSE 1 + DigitRun(Tail(chars))

\* value of a sequence of digits
RECURSIVE DigitsValue(_)
DigitsValue(chars) ==
  IF chars = <<>> THEN 0
  ELSE 10 * DigitsValue(SubSeq(chars, 1, Len(chars) - 1)) + DigitValue(chars[Len(chars)])

\* the longest numeric prefix of a string (optional sign, then digits), or NaN
ParsePrefix(chars) ==
  LET neg == chars # <<>> /\ Head(chars) = "-"
      rest == IF neg THEN Tail(chars) ELSE chars
      run == DigitRun(rest)
  IN IF run = 0 THEN NaN
     ELSE Num((IF neg THEN -1 ELSE 1) * DigitsValue(SubSeq(rest, 1, run)))

\* parseFloat(v) and parseInt(v, 10): a number is converted to its decimal
\* string first, which parses back to itself
parseFloat(v) ==
  CASE v.t = "number" -> v
    [] v.t = "string" -> ParsePrefix(v.s)
    [] OTHER -> NaN
parseInt(v) == parseFloat(v)

\* comparisons of a number with a literal; every comparison with NaN is false
Leq(v, lit) == v.t = "number" /\ v.n <= lit
Lt(v, lit) == v.t = "number" /\ v.n < lit
Gt(v, lit) == v.t = "number" /\ v.n > lit

LowerCase == <<"a", "b", "c", "d", "e", "f", "g", "h", "i", "j", "k", "l", "m",
               "n", "o", "p", "q", "r", "s", "t", "u", "v", "w", "x", "y", "z">>
UpperCase == <<"A", "B", "C", "D", "E", "F", "G", "H", "I", "J", "K", "L", "M",
               "N", "O", "P", "Q", "R", "S", "T", "U", "V", "W", "X", "Y", "Z">>

\* String.prototype.toLowerCase on a character sequence
toLowerCase(chars) ==
  [k \in 1..Len(chars) |->
     IF \E u \in 1..26 : UpperCase[u] = chars[k]
       THEN LowerCase[CHOOSE u \in 1..26 : UpperCase[u] = chars[k]]
       ELSE chars[k]]

\* String.prototype.includes
includes(chars, sub) ==
  \E k \in 0..(Len(chars) - Len(sub)) : SubSeq(chars, k + 1, k + Len(sub)) = sub

\* String(v || '')
StringOf(v) == IF v.t = "string" THEN v.s ELSE <<>>

-----------------------------------------------------------------------------
(***************************************************************************)
(* Dates.  new Date(string) is modelled for ISO dates YYYY-MM-DD, which    *)
(* parse to midnight of their day; every other string gives Invalid Date.  *)
(* A day is counted from 2025-01-01 (day 0) in years of 365 days.          *)
(***************************************************************************)
DaysBeforeMonth == <<0, 31, 59, 90, 120, 151, 181, 212, 243, 273, 304, 334>>

IsIsoDate(chars) ==
  /\ Len(chars) = 10
  /\ chars[5] = "-" /\ chars[8] = "-"
  /\ \A k \in {1, 2, 3, 4, 6, 7, 9, 10} : IsDigit(chars[k])
  /\ DigitsValue(SubSeq(chars, 6, 7)) \in 1..12
  /\ DigitsValue(SubSeq(chars, 9, 10)) \in 1..31

IsoDay(chars) ==
  365 * (DigitsValue(SubSeq(chars, 1, 4)) - 2025)
  + DaysBeforeMonth[DigitsValue(SubSeq(chars, 6, 7))]
  + DigitsValue(SubSeq(chars, 9, 10)) - 1

\* new Date(v).getTime() in days: NaN for Invalid Date
newDate(v) ==
  IF v.t = "string" /\ IsIsoDate(v.s) THEN Num(IsoDay(v.s)) ELSE NaN

\* Math.floor((currentDate - lastTransaction) / (1000 * 60 * 60 * 24))
DaysSince(time) == IF time.t = "number" THEN Num(today - time.n) ELSE NaN

(***************************************************************************)
(* String literals of the rules, as character sequences.                   *)
(***************************************************************************)
ChExpired == <<"e", "x", "p", "i", "r", "e", "d">>
ChPending == <<"p", "e", "n", "d", "i", "n", "g">>
ChExpiring == <<"e", "x", "p", "i", "r", "i", "n", "g">>
ChStudent == <<"s", "t", "u", "d", "e", "n", "t">>
ChSenior == <<"s", "e", "n", "i", "o", "r">>
ChComplete == <<"C", "o", "m", "p", "l", "e", "t", "e">>
ChCapExpired == <<"E", "x", "p", "i", "r", "e", "d">>
ChCapPending == <<"P", "e", "n", "d", "i", "n", "g">>
ChCapExpiring == <<"E", "x", "p", "i", "r", "i", "n", "g">>
ChCapStudent == <<"S", "t", "u", "d", "e", "n", "t">>
ChSeniorCitizen == <<"S", "e", "n", "i", "o", "r", " ", "C", "i", "t", "i", "z", "e", "n">>

\* v === 'literal'
StrictEq(v, chars) == v.t = "string" /\ v.s = chars

\* Number(v) as the relational operators apply it to a string operand: the
\* whole string must be numeric
ToNumber(v) ==
  CASE v.t = "number" -> v
    [] v.t = "string" ->
         IF v.s = <<>> THEN Num(0)
         ELSE LET neg == Head(v.s) = "-"
                  rest == IF neg THEN Tail(v.s) ELSE v.s
              IN IF rest # <<>> /\ DigitRun(rest) = Len(rest)
                   THEN ParsePrefix(v.s) ELSE NaN
    [] OTHER -> NaN

IssueTypes == {"account_closure", "kyc_update", "loan_default", "fee_waiver",
               "document_expiry"}

(***************************************************************************)
(* Server rule filter: the predicate of filterCustomersByRule.  The model's *)
(* customers carry the upper-case keys only, so the lower-case alternatives *)
(* of each `||` chain are undefined and drop out.                          *)
(***************************************************************************)
\* Variant of ServerKycUpdate whose status test is "does not contain
\* complete", written in lower case without the i flag.
ServerKycUpdateNotComplete(customer) ==
  LET email == JsOr(customer.EMAIL, Str(<<>>))
      mobile == JsOr(customer.MOBILE, Str(<<>>))
      kyc == JsOr(customer.KYC_STATUS, Str(<<>>))
  IN \/ ~Truthy(email)
     \/ ~Truthy(mobile)
     \/ ~includes(StringOf(kyc), toLowerCase(ChComplete))

\* case 'kyc_update' of filterCustomersByRule
ServerKycUpdate(customer) ==
  LET email == JsOr(customer.EMAIL, Str(<<>>))
      mobile == JsOr(customer.MOBILE, Str(<<>>))
      kyc == JsOr(customer.KYC_STATUS, Str(<<>>))
  IN \/ ~Truthy(email)
     \/ ~Truthy(mobile)
     \/ includes(toLowerCase(StringOf(kyc)), ChExpired)
     \/ includes(toLowerCase(StringOf(kyc)), ChPending)

ServerMatches(customer, issueType) ==
  CASE issueType = "account_closure" ->
         LET bal == JsOr(parseFloat(JsOr(customer.BALANCE, Num(0))), Num(0))
             lastTxRaw == customer.LAST_TRANSACTION
             lastTransaction == IF Truthy(lastTxRaw) THEN newDate(lastTxRaw) ELSE NaN
             daysSinceLastTransaction ==
               IF lastTransaction.t = "number" THEN DaysSince(lastTransaction) ELSE Num(9999)
         IN Leq(bal, 100) \/ Gt(daysSinceLastTransaction, 90)
    [] issueType = "kyc_update" -> ServerKycUpdate(customer)
    [] issueType = "loan_default" ->
         LET outstanding == JsOr(parseFloat(JsOr(customer.OUTSTANDING_AMOUNT, Num(0))), Num(0))
         IN Gt(outstanding, 0)
    [] issueType = "fee_waiver" ->
         LET age == JsOr(parseInt(JsOr(customer.AGE, Num(0))), Num(0))
             accType == toLowerCase(StringOf(customer.ACCOUNT_TYPE))
             custCat == toLowerCase(StringOf(customer.CUSTOMER_CATEGORY))
         IN Gt(age, 60) \/ accType = ChStudent \/ includes(custCat, ChSenior)
    [] issueType = "document_expiry" ->
         LET status == toLowerCase(StringOf(customer.DOC_STATUS))
             days == JsOr(parseInt(JsOr(customer.DOC_EXPIRY_DAYS, Num(9999))), Num(9999))
         IN status = ChExpiring \/ status = ChExpired \/ Leq(days, 60)
    [] OTHER -> FALSE

\* customers.filter(...) over a sequence
RECURSIVE FilterSeq(_, _)
FilterSeq(list, keep) ==
  IF list = <<>> THEN <<>>
  ELSE (IF keep[1] THEN <<Head(list)>> ELSE <<>>)
       \o FilterSeq(Tail(list), Tail(keep))

filterCustomersByRule(list, issueType) ==
  FilterSeq(list, [k \in 1..Len(list) |-> ServerMatches(list[k], issueType)])

(***************************************************************************)
(* Browser rule filter: the predicate of performRuleBasedAnalysis.         *)
(***************************************************************************)
BrowserMatches(customer, issueType) ==
  CASE issueType = "account_closure" ->
         LET balance == parseFloat(JsOr(customer.BALANCE, Num(0)))
             daysSinceLastTransaction ==
               IF Truthy(customer.LAST_TRANSACTION)
                 THEN DaysSince(newDate(customer.LAST_TRANSACTION))
                 ELSE Num(9999)
         IN Leq(balance, 100) \/ Gt(daysSinceLastTransaction, 90)
    [] issueType = "kyc_update" ->
         \/ ~Truthy(customer.EMAIL)
         \/ ~Truthy(customer.MOBILE)
         \/ StrictEq(customer.KYC_STATUS, ChCapExpired)
         \/ StrictEq(customer.KYC_STATUS, ChCapPending)
         \/ ~Truthy(customer.KYC_STATUS)
    [] issueType = "loan_default" ->
         Gt(parseFloat(JsOr(customer.OUTSTANDING_AMOUNT, Num(0))), 0)
    [] issueType = "fee_waiver" ->
         \/ Gt(parseInt(JsOr(customer.AGE, Num(0))), 60)
         \/ StrictEq(customer.ACCOUNT_TYPE, ChCapStudent)
         \/ StrictEq(customer.CUSTOMER_CATEGORY, ChSeniorCitizen)
    [] issueType = "document_expiry" ->
         \/ StrictEq(customer.DOC_STATUS, ChCapExpiring)
         \/ StrictEq(customer.DOC_STATUS, ChCapExpired)
         \/ (Truthy(customer.DOC_EXPIRY_DAYS) /\ Leq(ToNumber(customer.DOC_EXPIRY_DAYS), 60))
    [] OTHER -> FALSE

\* determinePriority(customer, issueType)
determinePriority(customer, issueType) ==
  CASE issueType = "loan_default" ->
         LET outstanding == parseFloat(JsOr(customer.OUTSTANDING_AMOUNT, Num(0)))
         IN IF Gt(outstanding, 100000) THEN "high"
            ELSE IF Gt(outstanding, 10000) THEN "medium"
            ELSE "low"
    [] issueType = "account_closure" ->
         LET balance == parseFloat(JsOr(customer.BALANCE, Num(0)))
         IN IF balance = Num(0) THEN "high"
            ELSE IF Lt(balance, 50) THEN "medium"
            ELSE "low"
    [] issueType = "kyc_update" ->
         IF ~Truthy(customer.EMAIL) /\ ~Truthy(customer.MOBILE) THEN "high"
         ELSE IF StrictEq(customer.KYC_STATUS, ChCapExpired) THEN "medium"
         ELSE "low"
    [] OTHER -> "medium"

\* one element of performRuleBasedAnalysis' result: the customer with the
\* fields the map step adds (reason is not modelled)
RuleBasedMatch(customer, issueType) ==
  [customer |-> customer, confidence |-> 85,
   priority |-> determinePriority(customer, issueType)]

performRuleBasedAnalysis(list, issueType) ==
  LET kept == FilterSeq(list, [k \in 1..Len(list) |-> BrowserMatches(list[k], issueType)])
  IN [k \in 1..Len(kept) |-> RuleBasedMatch(kept[k], issueType)]

-----------------------------------------------------------------------------
(***************************************************************************)
(* Customer records of rule evaluation and classification.                 *)
(***************************************************************************)
ChNA == <<"N", "/", "A">>
ChAddress == <<"c", "@", "s", "b", "i", ".", "i", "n">>
ChMobile == <<"9", "8", "7", "6", "5", "4", "3", "2", "1", "0">>
ChKycPending == <<"K", "Y", "C", " ", "P", "E", "N", "D", "I", "N", "G">>
ChSavings == <<"S", "a", "v", "i", "n", "g", "s">>
ChRegular == <<"R", "e", "g", "u", "l", "a", "r">>
ChValid == <<"V", "a", "l", "i", "d">>
ChUpperExpired == <<"E", "X", "P", "I", "R", "E", "D">>
ChNewYear == <<"2", "0", "2", "5", "-", "0", "1", "-", "0", "1">>
ChMarchEnd == <<"2", "0", "2", "5", "-", "0", "3", "-", "3", "1">>
ChSeventyFive == <<"7", "5">>

\* the days on which the rules are evaluated: 2025-04-01 and 2025-04-02
DayChoices == {90, 91}

\* decimal digits of a natural number
RECURSIVE DecimalChars(_)
DecimalChars(x) ==
  IF x < 10 THEN <<Digits[x + 1]>>
  ELSE DecimalChars(x \div 10) \o <<Digits[(x % 10) + 1]>>

\* the account number of the k-th customer of a list
AccountOf(k) == Str(<<"S", "B">> \o DecimalChars(k))

\* a customer no rule matches
BaseCustomer ==
  [ACCOUNT_NO |-> AccountOf(1), accountNo |-> Missing, accountKeyFirst |-> "ACCOUNT_NO",
   BALANCE |-> Num(5000), LAST_TRANSACTION |-> Str(ChMarchEnd),
   EMAIL |-> Str(ChAddress), MOBILE |-> Str(ChMobile), KYC_STATUS |-> Str(ChComplete),
   OUTSTANDING_AMOUNT |-> Num(0),
   AGE |-> Num(30), ACCOUNT_TYPE |-> Str(ChSavings), CUSTOMER_CATEGORY |-> Str(ChRegular),
   DOC_STATUS |-> Str(ChValid), DOC_EXPIRY_DAYS |-> Missing, DAYS_TO_EXPIRY |-> Missing]

-----------------------------------------------------------------------------
(***************************************************************************)
(* Validation middleware.  `body` tells which parts of the request were    *)
(* sent: whether customers is present, the issue type, and the keys of     *)
(* options; the customers array is `customers`, the option values are in   *)
(* `options`.  Joi validates the keys in schema order and reports the      *)
(* first error; an object schema rejects keys it does not list.            *)
(***************************************************************************)
EmailOptionKeys ==
  {"includeAttachment", "sendCopy", "priority", "delayMs", "batchSize", "batchDelayMs"}
LetterOptionKeys == {"generatePDF", "includeHeader", "includeFooter", "batchSize"}
AnalysisOptionKeys == {"useAI", "aiProvider", "confidenceThreshold", "maxResults"}

\* error.details[0].path[0] of schema.validate(req.body), "" when valid
SchemaError(req, list, opts, maxCustomers, optionKeys, maxBatchSize) ==
  IF ~req.customersGiven THEN "customers"
  ELSE IF Len(list) < 1 \/ Len(list) > maxCustomers THEN "customers"
  ELSE IF req.issueType \notin IssueTypes THEN "issueType"
  ELSE IF ~(req.optionKeys \subseteq optionKeys) THEN "options"
  ELSE IF "batchSize" \in req.optionKeys
          /\ (opts.batchSize < 1 \/ opts.batchSize > maxBatchSize) THEN "options"
  ELSE ""

validateAnalysisRequest(req, list, opts) ==
  SchemaError(req, list, opts, 10000, AnalysisOptionKeys, 0)
validateLetterRequest(req, list, opts) ==
  SchemaError(req, list, opts, 1000, LetterOptionKeys, 100)
validateEmailRequest(req, list, opts) ==
  SchemaError(req, list, opts, 500, EmailOptionKeys, 10)

ValidatedRoutes == {"send", "bulkSend", "generate", "bulkGenerate", "analyze"}

\* the validator mounted on the route
RouteValidation ==
  CASE route \in {"send", "bulkSend"} -> validateEmailRequest(body, customers, options)
    [] route \in {"generate", "bulkGenerate"} -> validateLetterRequest(body, customers, options)
    [] route = "analyze" -> validateAnalysisRequest(body, customers, options)

\* req.body = value: the defaults Joi fills in for absent options
WithDefaults(opts) ==
  IF "batchSize" \in body.optionKeys \/ route = "analyze" THEN opts
  ELSE [opts EXCEPT !.batchSize = IF route \in {"send", "bulkSend"}
                                    THEN DefaultEmailBatchSize
                                    ELSE DefaultLetterBatchSize]

ValidationFailed(field) ==
  [kind |-> "invalid", status |-> 400, error |-> "Validation failed", field |-> field]

\* Variant of Validate that logs the error and calls next() all the same.
ValidateAndContinue ==
  /\ route \in ValidatedRoutes /\ pc = "validate"
  /\ pc' = "start"
  /\ options' = WithDefaults(options)
  /\ UNCHANGED <<body, pdfRaised, analysisVars, route, customers, transporter, i,
                 batchIndex, batches, batchResults, results, errors, now, itemPc,
                 itemResult, completed, batchStart, calls, sendAt, doneAt, raised,
                 response>>

\* the middleware: answer 400 and stop, or hand the request to the handler
Validate ==
  /\ route \in ValidatedRoutes /\ pc = "validate"
  /\ IF RouteValidation # ""
       THEN /\ response' = ValidationFailed(RouteValidation)
            /\ pc' = "rejected"
            /\ UNCHANGED options
       ELSE /\ pc' = "start"
            /\ options' = WithDefaults(options)
            /\ UNCHANGED response
  /\ UNCHANGED <<body, pdfRaised, analysisVars, route, customers, transporter, i,
                 batchIndex, batches, batchResults, results, errors, now, itemPc,
                 itemResult, completed, batchStart, calls, sendAt, doneAt, raised>>

-----------------------------------------------------------------------------
(***************************************************************************)
(* POST /customers/analyze.  A customer of this route carries its account  *)
(* number under ACCOUNT_NO or under the variant key accountNo (Missing: the *)
(* key is absent); accountKeyFirst names the one Object.keys lists first.  *)
(* A returned match is the record together with the three ai* properties   *)
(* (Missing / Undefined when the match was not enhanced).  Confidences are *)
(* in hundredths.                                                          *)
(***************************************************************************)
ScoringCap == 100
DefaultAiConfidence == 80
DefaultMinConfidence == 70
DefaultThreshold == 70

\* Object.keys(obj) restricted to the keys either regular expression of
\* normalizeAccountKey matches
AccountKeys(obj) ==
  LET order == IF obj.accountKeyFirst = "accountNo"
                 THEN <<"accountNo", "ACCOUNT_NO">> ELSE <<"ACCOUNT_NO", "accountNo">>
  IN SelectSeq(order, LAMBDA key : obj[key] # Missing)

normalizeAccountKey(obj) ==
  LET keys == AccountKeys(obj)
  IN IF keys # <<>> /\ keys[1] # "ACCOUNT_NO"
       THEN [obj EXCEPT !.ACCOUNT_NO = obj[keys[1]]]
     ELSE IF ~Truthy(obj.ACCOUNT_NO) /\ keys # <<>>
       THEN [obj EXCEPT !.ACCOUNT_NO = obj[keys[1]]]
     ELSE obj

\* getAccountValue(obj)
getAccountValue(obj) ==
  JsOr(normalizeAccountKey(obj).ACCOUNT_NO, JsOr(obj.accountNo, Str(<<>>)))

Unenhanced(customer) ==
  [customer |-> customer, aiConfidence |-> Missing, aiPriority |-> Undefined,
   aiReason |-> Undefined]

\* analysisResult before the optional enhancement
RuleBasedResult(normalized, filtered) ==
  [totalCustomers |-> Len(normalized),
   ruleBasedMatches |-> Len(filtered),
   finalMatches |-> Len(filtered),
   customers |-> [k \in 1..Len(filtered) |-> Unenhanced(filtered[k])],
   confidence |-> "rule-based",
   aiEnhanced |-> FALSE,
   aiError |-> Undefined]

\* what aiService.analyzeCustomers can do with the list it is given: throw,
\* or return parsed JSON with or without an analysis array.  The array holds
\* an entry for any of the first MaxScored customers, keyed by the account
\* number in lower case.
AiEntry(customer, confidence, priority) ==
  [account_no |-> Str(toLowerCase(StringOf(getAccountValue(customer)))),
   confidence |-> confidence, priority |-> priority, reason |-> "scored"]

AiOutcomes(toAnalyze) ==
  {[kind |-> "throw", message |-> "AI analysis failed: quota exceeded", analysis |-> <<>>],
   [kind |-> "throw", message |-> "AI analysis failed: Invalid JSON response from AI",
    analysis |-> <<>>],
   [kind |-> "no analysis", message |-> Undefined, analysis |-> <<>>]}
  \cup
  {[kind |-> "analysis", message |-> Undefined,
    analysis |-> [k \in 1..Len(picked) |-> AiEntry(picked[k], conf, prio)]] :
     picked \in {FilterSeq(SubSeq(toAnalyze, 1, Min(MaxScored, Len(toAnalyze))), keep) :
                   keep \in [1..Min(MaxScored, Len(toAnalyze)) -> BOOLEAN]},
     conf \in {Num(50), Num(90), Num(150)}, prio \in {"high", "urgent"}}

\* aiMap.get(acctVal): the last entry set under the key
AiMatches(analysis, acctVal) ==
  {j \in 1..Len(analysis) :
     /\ acctVal # <<>>
     /\ toLowerCase(StringOf(JsOr(analysis[j].account_no, Str(<<>>)))) = acctVal}

LastOf(indices) == CHOOSE j \in indices : \A m \in indices : m <= j

\* the callback of ruleFiltered.map
Enhance(customer, analysis) ==
  LET acctVal == toLowerCase(StringOf(getAccountValue(customer)))
      hits == AiMatches(analysis, acctVal)
  IN IF hits # {}
       THEN [customer |-> customer,
             aiConfidence |-> analysis[LastOf(hits)].confidence,
             aiPriority |-> analysis[LastOf(hits)].priority,
             aiReason |-> analysis[LastOf(hits)].reason]
       ELSE [customer |-> customer,
             aiConfidence |-> Num(DefaultAiConfidence),
             aiPriority |-> "medium",
             aiReason |-> "Rule-based match"]

\* a >= b
AtLeast(a, b) ==
  /\ ToNumber(a).t = "number" /\ ToNumber(b).t = "number"
  /\ ToNumber(a).n >= ToNumber(b).n

\* Variant of Scored in which a failed scoring call empties the result.
ScoredFailureEmpties(result, filtered, outcome) ==
  CASE outcome.kind = "throw" ->
         [result EXCEPT !.aiError = outcome.message, !.customers = <<>>,
                        !.finalMatches = 0]
    [] outcome.kind = "no analysis" -> result
    [] outcome.kind = "analysis" ->
         LET enhanced == [k \in 1..Len(filtered) |-> Enhance(filtered[k], outcome.analysis)]
         IN [result EXCEPT
               !.aiEnhanced = TRUE,
               !.customers = enhanced,
               !.finalMatches =
                  Cardinality({k \in 1..Len(enhanced) :
                                 AtLeast(enhanced[k].aiConfidence,
                                         JsOr(options.minConfidence,
                                              Num(DefaultMinConfidence)))}),
               !.confidence = "ai-enhanced"]

\* analysisResult after aiService.analyzeCustomers settled
Scored(result, filtered, outcome) ==
  CASE outcome.kind = "throw" -> [result EXCEPT !.aiError = outcome.message]
    [] outcome.kind = "no analysis" -> result
    [] outcome.kind = "analysis" ->
         LET enhanced == [k \in 1..Len(filtered) |-> Enhance(filtered[k], outcome.analysis)]
         IN [result EXCEPT
               !.aiEnhanced = TRUE,
               !.customers = enhanced,
               !.finalMatches =
                  Cardinality({k \in 1..Len(enhanced) :
                                 AtLeast(enhanced[k].aiConfidence,
                                         JsOr(options.minConfidence,
                                              Num(DefaultMinConfidence)))}),
               !.confidence = "ai-enhanced"]

\* Variant of AnalyzeStart that answers with the capped list handed to the
\* collaborator instead of all rule matches.
AnalyzeStartCapped ==
  /\ route = "analyze" /\ pc = "start"
  /\ LET normalized == [k \in 1..Len(customers) |-> normalizeAccountKey(customers[k])]
         filtered == Slice(filterCustomersByRule(normalized, body.issueType), 0, ScoringCap)
         useAI == options.useAI /\ geminiKey
     IN /\ ruleFiltered' = filtered
        /\ ruleEvals' = ruleEvals + Len(normalized)
        /\ analysisResult' = RuleBasedResult(normalized, filtered)
        /\ IF useAI /\ Len(filtered) > 0
             THEN /\ aiCalls' = Append(aiCalls, Slice(filtered, 0, ScoringCap))
                  /\ pc' = "scoring"
             ELSE /\ pc' = "respond"
                  /\ UNCHANGED aiCalls
  /\ UNCHANGED <<pipelineVarsButPc, today, verdict, geminiKey, ruleBasedResults,
                 finalResults, fetchCalls, aiOutcome, rerun, page>>

\* normalize, filter by rule, build analysisResult, and call the scoring
\* collaborator when enabled, configured and something matched
AnalyzeStart ==
  /\ route = "analyze" /\ pc = "start"
  /\ LET normalized == [k \in 1..Len(customers) |-> normalizeAccountKey(customers[k])]
         filtered == filterCustomersByRule(normalized, body.issueType)
         useAI == options.useAI /\ geminiKey
     IN /\ ruleFiltered' = filtered
        /\ ruleEvals' = ruleEvals + Len(normalized)
        /\ analysisResult' = RuleBasedResult(normalized, filtered)
        /\ IF useAI /\ Len(filtered) > 0
             THEN /\ aiCalls' = Append(aiCalls, Slice(filtered, 0, ScoringCap))
                  /\ pc' = "scoring"
             ELSE /\ pc' = "respond"
                  /\ UNCHANGED aiCalls
  /\ UNCHANGED <<pipelineVarsButPc, today, verdict, geminiKey, ruleBasedResults,
                 finalResults, fetchCalls, aiOutcome, rerun, page>>

\* await aiService.analyzeCustomers(toAnalyze, issueType) settles
AnalyzeScore ==
  /\ route = "analyze" /\ pc = "scoring"
  /\ \E outcome \in AiOutcomes(aiCalls[Len(aiCalls)]) :
       /\ analysisResult' = Scored(analysisResult, ruleFiltered, outcome)
       /\ aiOutcome' = outcome
  /\ pc' = "respond"
  /\ UNCHANGED <<pipelineVarsButPc, today, verdict, geminiKey, ruleFiltered, aiCalls,
                 ruleEvals, ruleBasedResults, finalResults, fetchCalls, rerun, page>>

AnalyzeRespond ==
  /\ route = "analyze" /\ pc = "respond"
  /\ response' = [kind |-> "json", success |-> TRUE, issueType |-> body.issueType,
                  analysis |-> analysisResult]
  /\ pc' = "done"
  /\ UNCHANGED <<body, pdfRaised, analysisVars, route, customers, options, transporter,
                 i, batchIndex, batches, batchResults, results, errors, now, itemPc,
                 itemResult, completed, batchStart, calls, sendAt, doneAt, raised>>

-----------------------------------------------------------------------------
(***************************************************************************)
(* Browser: analyzeCustomers and performAIAnalysis.  The page's customers  *)
(* are `customers`, its issue type is body.issueType, the useAI checkbox   *)
(* is options.useAI; AppConfig.enableAI is true.                           *)
(***************************************************************************)
BrowserCap == 50

\* the body performAIAnalysis posts
PostedBody(matches) ==
  [customers |-> Slice(matches, 0, BrowserCap),
   req |-> [customersGiven |-> TRUE, issueType |-> body.issueType,
            optionKeys |-> {"useAI", "detailedAnalysis", "confidenceThreshold"}]]

\* the posted matches without the properties the browser added
PostedCustomers(post) == [k \in 1..Len(post.customers) |-> post.customers[k].customer]

\* what POST /customers/analyze answers to the posted body
ServerReply(post, outcome) ==
  IF validateAnalysisRequest(post.req, post.customers, options) # ""
    THEN [ok |-> FALSE, status |-> 400, customers |-> <<>>]
  ELSE LET normalized == [k \in 1..Len(post.customers) |->
                            normalizeAccountKey(PostedCustomers(post)[k])]
           filtered == filterCustomersByRule(normalized, post.req.issueType)
           result == IF geminiKey /\ Len(filtered) > 0
                       THEN Scored(RuleBasedResult(normalized, filtered), filtered, outcome)
                       ELSE RuleBasedResult(normalized, filtered)
       IN [ok |-> TRUE, status |-> 200, customers |-> result.customers]

BrowserAnalyzeStart ==
  /\ route = "browserAnalyze" /\ pc = "start"
  /\ ruleBasedResults' = performRuleBasedAnalysis(customers, body.issueType)
  /\ finalResults' = ruleBasedResults'
  /\ ruleEvals' = ruleEvals + Len(customers)
  /\ IF options.useAI
       THEN /\ fetchCalls' = Append(fetchCalls, PostedBody(ruleBasedResults'))
            /\ pc' = "fetch"
       ELSE /\ pc' = "store"
            /\ UNCHANGED fetchCalls
  /\ UNCHANGED <<pipelineVarsButPc, today, verdict, geminiKey, ruleFiltered,
                 analysisResult, aiCalls, aiOutcome, rerun, page>>

\* await fetch(...) settles: the request fails on the network, or the
\* server replies; anything but a 2xx reply with an analysis is thrown and
\* caught by analyzeCustomers, which keeps the rule-based results
BrowserFetchSettle ==
  /\ route = "browserAnalyze" /\ pc = "fetch"
  /\ \E delivered \in BOOLEAN :
       \E outcome \in AiOutcomes(PostedCustomers(fetchCalls[Len(fetchCalls)])) :
         LET reply == ServerReply(fetchCalls[Len(fetchCalls)], outcome)
         IN /\ finalResults' = IF delivered /\ reply.ok THEN reply.customers
                               ELSE ruleBasedResults
            /\ aiOutcome' = [NoOutcome EXCEPT
                               !.kind = IF ~delivered THEN "network error"
                                        ELSE IF ~reply.ok THEN "http error"
                                        ELSE "reply"]
  /\ pc' = "store"
  /\ UNCHANGED <<pipelineVarsButPc, today, verdict, geminiKey, ruleFiltered,
                 analysisResult, aiCalls, ruleEvals, ruleBasedResults, fetchCalls,
                 rerun, page>>

\* AppState.filteredCustomers = finalResults
BrowserStore ==
  /\ route = "browserAnalyze" /\ pc = "store"
  /\ response' = [kind |-> "state", filteredCustomers |-> finalResults]
  /\ pc' = "done"
  /\ UNCHANGED <<body, pdfRaised, analysisVars, route, customers, options, transporter,
                 i, batchIndex, batches, batchResults, results, errors, now, itemPc,
                 itemResult, completed, batchStart, calls, sendAt, doneAt, raised>>

-----------------------------------------------------------------------------
(***************************************************************************)
(* The request: a route, its validated body, and the mailer configuration. *)
(***************************************************************************)
\* thresholds a caller asks for, in hundredths
LowThreshold == 40
ThresholdChoices == {LowThreshold, DefaultThreshold}

EmailRoutes == {"send", "bulkSend", "sendBulkEmails"}
LetterRoutes == {"generate", "bulkGenerate"}

DefaultOptions ==
  [delayMs |-> 1000, batchSize |-> 0, batchDelayMs |-> 5000, maxConcurrent |-> 0,
   generatePDF |-> FALSE, useAI |-> FALSE, confidenceThreshold |-> DefaultThreshold,
   minConfidence |-> Missing]

EmailedLists == {cs \in CustomerLists : \A k \in 1..Len(cs) : HasEmail(cs[k])}

\* the value a record carries under a second account key
OtherAccountOf(k) == Str(<<"X", "Y">> \o DecimalChars(k))

CustomerKinds == {"match", "pending", "other", "variant", "both", "nokey"}

\* a customer of POST /customers/analyze under kyc_update: a match with
\* expired KYC, a match with pending KYC, a record the rule does not match,
\* a match that names its account accountNo, a match that lists accountNo
\* before ACCOUNT_NO, and a match without any account key
AnalyzeCustomer(k, kind) ==
  CASE kind = "match" ->
         [BaseCustomer EXCEPT !.ACCOUNT_NO = AccountOf(k), !.KYC_STATUS = Str(ChCapExpired)]
    [] kind = "pending" ->
         [BaseCustomer EXCEPT !.ACCOUNT_NO = AccountOf(k), !.KYC_STATUS = Str(ChCapPending)]
    [] kind = "both" ->
         [BaseCustomer EXCEPT !.ACCOUNT_NO = AccountOf(k), !.accountNo = OtherAccountOf(k),
                              !.accountKeyFirst = "accountNo",
                              !.KYC_STATUS = Str(ChCapExpired)]
    [] kind = "nokey" ->
         [BaseCustomer EXCEPT !.ACCOUNT_NO = Missing, !.KYC_STATUS = Str(ChCapExpired)]
    [] kind = "other" ->
         [BaseCustomer EXCEPT !.ACCOUNT_NO = AccountOf(k)]
    [] kind = "variant" ->
         [BaseCustomer EXCEPT !.ACCOUNT_NO = Missing, !.accountNo = AccountOf(k),
                              !.accountKeyFirst = "accountNo",
                              !.KYC_STATUS = Str(ChCapExpired)]

\* short lists of every composition, and one list with more matches than
\* the scoring cap
AnalyzeLists ==
  UNION { { [k \in 1..n |-> AnalyzeCustomer(k, kinds[k])] :
              kinds \in [1..n -> CustomerKinds] } : n \in 1..MaxAnalyzed }
  \cup { [k \in 1..(ScoringCap + 1) |-> AnalyzeCustomer(k, "match")] }

AnalysisRoutes == {"analyze", "browserAnalyze"}

RouteOptions(r) ==
  CASE r = "send" ->
         {[DefaultOptions EXCEPT !.delayMs = d] : d \in DelayChoices}
    [] r = "bulkSend" ->
         {[DefaultOptions EXCEPT !.delayMs = d, !.batchSize = b, !.batchDelayMs = bd] :
            d \in DelayChoices, b \in 0..MaxBatch, bd \in BatchDelayChoices}
    [] r = "sendBulkEmails" ->
         {[DefaultOptions EXCEPT !.delayMs = d, !.maxConcurrent = m] :
            d \in DelayChoices, m \in 1..MaxConcurrentBound}
    [] r = "generate" ->
         {[DefaultOptions EXCEPT !.generatePDF = g] : g \in BOOLEAN}
    [] r = "bulkGenerate" ->
         {[DefaultOptions EXCEPT !.batchSize = b] : b \in 0..MaxBatch}
    [] r \in AnalysisRoutes ->
         {[DefaultOptions EXCEPT !.useAI = u, !.confidenceThreshold = t, !.minConfidence = m] :
            u \in BOOLEAN, t \in ThresholdChoices,
            m \in (IF r = "analyze" THEN {Missing, Num(LowThreshold)} ELSE {Missing})}

\* the keys of req.body.options
RouteOptionKeys(r) ==
  CASE r = "send" -> {{"delayMs"}}
    [] r = "bulkSend" -> {{"delayMs", "batchSize", "batchDelayMs"}, {"delayMs", "batchDelayMs"}}
    [] r = "generate" -> {{"generatePDF"}}
    [] r = "bulkGenerate" -> {{"batchSize"}, {}}
    [] r = "analyze" -> {{"useAI"}, {"useAI", "confidenceThreshold"},
                         {"useAI", "minConfidence"},
                         {"useAI", "detailedAnalysis", "confidenceThreshold"}}
    [] OTHER -> {{}}

RouteLists(r) ==
  (CASE r \in EmailRoutes -> CustomerLists
     [] r \in LetterRoutes -> EmailedLists
     [] r \in AnalysisRoutes -> AnalyzeLists)
  \cup (IF r \in ValidatedRoutes THEN {<<>>} ELSE {})

\* what was sent: a request may lack customers or name an unknown issue type
RouteBodies(r, list) ==
  {[customersGiven |-> g, issueType |-> t, optionKeys |-> ks] :
     g \in (IF r \in ValidatedRoutes /\ list = <<>> THEN BOOLEAN ELSE {TRUE}),
     t \in (IF r \in ValidatedRoutes THEN {"kyc_update", "newsletter"} ELSE {"kyc_update"}),
     ks \in RouteOptionKeys(r)}

\* the option values of /customers/analyze belong to the keys that were sent
OptionsAsSent ==
  route = "analyze" =>
    /\ ("minConfidence" \in body.optionKeys) = (options.minConfidence # Missing)
    /\ ("confidenceThreshold" \notin body.optionKeys =>
          options.confidenceThreshold = DefaultThreshold)

Init ==
  /\ route \in EmailRoutes \cup LetterRoutes \cup AnalysisRoutes
  /\ customers \in RouteLists(route)
  /\ body \in RouteBodies(route, customers)
  /\ options \in RouteOptions(route)
  /\ OptionsAsSent
  /\ transporter \in (IF route \in EmailRoutes THEN BOOLEAN ELSE {TRUE})
  /\ geminiKey \in (IF route \in AnalysisRoutes THEN BOOLEAN ELSE {FALSE})
  /\ pc = IF route \in ValidatedRoutes THEN "validate" ELSE "start"
  /\ i = 0
  /\ batchIndex = 0
  /\ batches = <<>>
  /\ batchResults = <<>>
  /\ results = <<>>
  /\ errors = <<>>
  /\ now = 0
  /\ itemPc = <<>>
  /\ itemResult = <<>>
  /\ completed = <<>>
  /\ batchStart = 0
  /\ calls = [k \in 1..Len(customers) |-> 0]
  /\ sendAt = [k \in 1..Len(customers) |-> -1]
  /\ doneAt = [k \in 1..Len(customers) |-> -1]
  /\ raised = [k \in 1..Len(customers) |-> NoError]
  /\ response = NoResponse
  /\ pdfRaised = [k \in 1..Len(customers) |-> NoError]
  /\ today = 90
  /\ verdict = NoVerdict
  /\ ruleFiltered = <<>> /\ analysisResult = NoResponse /\ aiCalls = <<>>
  /\ ruleEvals = 0 /\ ruleBasedResults = <<>> /\ finalResults = <<>> /\ fetchCalls = <<>>
  /\ aiOutcome = NoOutcome /\ rerun = NoRerun /\ page = NoPage

Next ==
  \/ SendStart \/ SendSkip \/ SendDelay \/ SendLetterStep \/ SendRespond
  \/ BulkStart \/ BulkBatchBegin \/ BulkSkip \/ BulkSendLetter \/ BulkItemDelay
  \/ BulkBatchEnd \/ BulkBatchDelay \/ BulkRespond
  \/ ServiceStart \/ ServiceBatchBegin
  \/ (\E k \in 1..MaxItems : ServiceTimerFire(k))
  \/ (\E k \in 1..MaxItems : ServiceSendSettle(k))
  \/ ServiceBatchEnd \/ ServiceBatchDelay \/ ServiceReturn
  \/ GenerateStart \/ GenerateItem \/ GenerateRespond
  \/ BulkGenerateStart \/ BulkGenerateBatchBegin \/ BulkGenerateItem
  \/ BulkGenerateBatchEnd \/ BulkGenerateRespond
  \/ Validate
  \/ AnalyzeStart \/ AnalyzeScore \/ AnalyzeRespond
  \/ BrowserAnalyzeStart \/ BrowserFetchSettle \/ BrowserStore

Spec == Init /\ [][Next]_vars

\* The requests of POST /email/send and POST /email/bulk-send.  Every step
\* of a request is a continuation of the handler, a timer or the mailer's
\* promise: the event loop runs it once it is ready.
InitLive == route \in {"send", "bulkSend"} /\ Init

NextLive ==
  \/ Validate
  \/ SendStart \/ SendSkip \/ SendLetterStep \/ SendDelay \/ SendRespond
  \/ BulkStart \/ BulkBatchBegin \/ BulkSkip \/ BulkSendLetter \/ BulkItemDelay
  \/ BulkBatchEnd \/ BulkBatchDelay \/ BulkRespond

SpecLive == InitLive /\ [][NextLive]_vars /\ WF_vars(NextLive)

-----------------------------------------------------------------------------
(***************************************************************************)
(* Rule evaluation on one customer: both evaluators of the program are run *)
(* on the same record, issue type and day.                                 *)
(***************************************************************************)
BalanceChoices ==
  {Missing, Str(<<>>), Str(ChNA), Str(ChSeventyFive),
   Num(-500), Num(0), Num(30), Num(50), Num(100), Num(101)}
DateChoices == {Missing, Str(ChNA), Str(ChNewYear), Str(ChMarchEnd)}
KycChoices ==
  {Missing, Str(<<>>), Str(ChComplete), Str(ChCapPending), Str(ChCapExpired),
   Str(ChExpired), Str(ChKycPending)}
AmountChoices == {Missing, Str(ChNA), Str(ChSeventyFive), Num(0), Num(5000)}
AgeChoices == {Missing, Str(ChNA), Num(30), Num(60), Num(61)}
AccountTypeChoices == {Missing, Str(ChSavings), Str(ChCapStudent), Str(ChStudent)}
CategoryChoices == {Missing, Str(ChRegular), Str(ChSeniorCitizen), Str(ChSenior)}
DocStatusChoices == {Missing, Str(ChValid), Str(ChCapExpiring), Str(ChUpperExpired)}
ExpiryDayChoices == {Missing, Str(ChNA), Num(0), Num(30), Num(61)}

\* the customers an issue type is evaluated on: the fields its rule reads vary
RuleCustomers(issueType) ==
  CASE issueType = "account_closure" ->
         {[BaseCustomer EXCEPT !.BALANCE = b, !.LAST_TRANSACTION = d] :
            b \in BalanceChoices, d \in DateChoices}
    [] issueType = "kyc_update" ->
         {[BaseCustomer EXCEPT !.EMAIL = e, !.MOBILE = m, !.KYC_STATUS = k] :
            e \in {Missing, Str(<<>>), Str(ChAddress)}, m \in {Str(<<>>), Str(ChMobile)},
            k \in KycChoices}
    [] issueType = "loan_default" ->
         {[BaseCustomer EXCEPT !.OUTSTANDING_AMOUNT = o] : o \in AmountChoices}
    [] issueType = "fee_waiver" ->
         {[BaseCustomer EXCEPT !.AGE = g, !.ACCOUNT_TYPE = t, !.CUSTOMER_CATEGORY = c] :
            g \in AgeChoices, t \in AccountTypeChoices, c \in CategoryChoices}
    [] issueType = "document_expiry" ->
         {[BaseCustomer EXCEPT !.DOC_STATUS = s, !.DOC_EXPIRY_DAYS = x, !.DAYS_TO_EXPIRY = y] :
            s \in DocStatusChoices, x \in ExpiryDayChoices, y \in ExpiryDayChoices}

InitRules ==
  /\ route = "rules"
  /\ body \in {[customersGiven |-> TRUE, issueType |-> t, optionKeys |-> {}] :
                t \in IssueTypes}
  /\ customers \in {<<c>> : c \in RuleCustomers(body.issueType)}
  /\ today \in DayChoices
  /\ verdict = NoVerdict
  /\ options = DefaultOptions
  /\ transporter = TRUE
  /\ pc = "start"
  /\ i = 0 /\ batchIndex = 0 /\ batches = <<>> /\ batchResults = <<>>
  /\ results = <<>> /\ errors = <<>> /\ now = 0
  /\ itemPc = <<>> /\ itemResult = <<>> /\ completed = <<>> /\ batchStart = 0
  /\ calls = <<0>> /\ sendAt = <<-1>> /\ doneAt = <<-1>>
  /\ raised = <<NoError>> /\ pdfRaised = <<NoError>>
  /\ response = NoResponse
  /\ ruleFiltered = <<>> /\ analysisResult = NoResponse /\ aiCalls = <<>>
  /\ ruleEvals = 0 /\ ruleBasedResults = <<>> /\ finalResults = <<>> /\ fetchCalls = <<>>
  /\ aiOutcome = NoOutcome /\ rerun = NoRerun /\ page = NoPage
  /\ geminiKey = FALSE

\* the server evaluator decides
RulesServerFilter ==
  /\ route = "rules" /\ verdict.server = "pending"
  /\ verdict' = [verdict EXCEPT !.server =
                   IF Len(filterCustomersByRule(customers, body.issueType)) = 1
                     THEN "match" ELSE "no match"]
  /\ UNCHANGED <<pipelineVars, today, ruleFiltered, analysisResult, aiCalls, ruleEvals,
                 ruleBasedResults, finalResults, fetchCalls, geminiKey, aiOutcome,
                 rerun, page>>

\* the browser evaluator decides and, for a match, assigns the priority
RulesBrowserFilter ==
  /\ route = "rules" /\ verdict.browser = "pending"
  /\ LET matches == performRuleBasedAnalysis(customers, body.issueType)
     IN verdict' = [verdict EXCEPT
                      !.browser = IF Len(matches) = 1 THEN "match" ELSE "no match",
                      !.priority = IF Len(matches) = 1 THEN matches[1].priority
                                   ELSE Undefined]
  /\ UNCHANGED <<pipelineVars, today, ruleFiltered, analysisResult, aiCalls, ruleEvals,
                 ruleBasedResults, finalResults, fetchCalls, geminiKey, aiOutcome,
                 rerun, page>>

NextRules == RulesServerFilter \/ RulesBrowserFilter

SpecRules == InitRules /\ [][NextRules]_vars

-----------------------------------------------------------------------------
(***************************************************************************)
(* Rule evaluation run twice on the same customer and issue type, with     *)
(* scoring disabled; a day may pass between the two runs.                  *)
(***************************************************************************)
FirstRunDone == verdict.server # "pending" /\ verdict.browser # "pending"

\* midnight passes between the runs
RulesDayPasses ==
  /\ route = "rules" /\ FirstRunDone /\ rerun.server = "pending"
  /\ today + 1 \in DayChoices
  /\ today' = today + 1
  /\ rerun' = [rerun EXCEPT !.elapsed = @ + 1]
  /\ UNCHANGED <<pipelineVars, verdict, ruleFiltered, analysisResult, aiCalls, ruleEvals,
                 ruleBasedResults, finalResults, fetchCalls, geminiKey, aiOutcome, page>>

\* Variant of RulesRerun whose second run keeps no match of the first.
RulesRerunEmpty ==
  /\ route = "rules" /\ FirstRunDone /\ rerun.server = "pending"
  /\ rerun' = [rerun EXCEPT !.server = "no match", !.browser = "no match",
                            !.priority = Undefined]
  /\ UNCHANGED <<pipelineVars, today, verdict, ruleFiltered, analysisResult, aiCalls,
                 ruleEvals, ruleBasedResults, finalResults, fetchCalls, geminiKey,
                 aiOutcome, page>>

\* both evaluators run again on the same input
RulesRerun ==
  /\ route = "rules" /\ FirstRunDone /\ rerun.server = "pending"
  /\ LET matches == performRuleBasedAnalysis(customers, body.issueType)
     IN rerun' = [rerun EXCEPT
                    !.server = IF Len(filterCustomersByRule(customers, body.issueType)) = 1
                                 THEN "match" ELSE "no match",
                    !.browser = IF Len(matches) = 1 THEN "match" ELSE "no match",
                    !.priority = IF Len(matches) = 1 THEN matches[1].priority
                                 ELSE Undefined]
  /\ UNCHANGED <<pipelineVars, today, verdict, ruleFiltered, analysisResult, aiCalls,
                 ruleEvals, ruleBasedResults, finalResults, fetchCalls, geminiKey,
                 aiOutcome, page>>

NextTwice == RulesServerFilter \/ RulesBrowserFilter \/ RulesDayPasses \/ RulesRerun

SpecTwice == InitRules /\ [][NextTwice]_vars

-----------------------------------------------------------------------------
(***************************************************************************)
(* Browser start-up.  The page script registers its DOMContentLoaded       *)
(* listeners when it is evaluated; the document's readyState at that       *)
(* moment depends on how the page includes the script.  Listeners run in   *)
(* registration order, timers in the order of their due times.             *)
(***************************************************************************)
RobustDelay == 50
LegacyDelay == 100

ReadyStates == {"loading", "interactive", "complete"}
PageElements == {"excelFile", "issueType", "customerSearch"}

InitPage ==
  /\ route = "page"
  /\ page \in {[readyState |-> r, elements |-> e, scriptRan |-> FALSE, fired |-> FALSE,
                listeners |-> <<>>, timers |-> {}, clock |-> 0, initialized |-> FALSE,
                initializeAppRuns |-> 0, registered |-> {}, searchListeners |-> 0,
                uncaught |-> 0, loadingScreen |-> TRUE] :
                r \in ReadyStates, e \in SUBSET PageElements}
  /\ customers = <<>>
  /\ body = [customersGiven |-> FALSE, issueType |-> "", optionKeys |-> {}]
  /\ options = DefaultOptions
  /\ transporter = TRUE
  /\ pc = "start"
  /\ i = 0 /\ batchIndex = 0 /\ batches = <<>> /\ batchResults = <<>>
  /\ results = <<>> /\ errors = <<>> /\ now = 0
  /\ itemPc = <<>> /\ itemResult = <<>> /\ completed = <<>> /\ batchStart = 0
  /\ calls = <<>> /\ sendAt = <<>> /\ doneAt = <<>>
  /\ raised = <<>> /\ pdfRaised = <<>>
  /\ response = NoResponse
  /\ today = 90 /\ verdict = NoVerdict
  /\ ruleFiltered = <<>> /\ analysisResult = NoResponse /\ aiCalls = <<>>
  /\ ruleEvals = 0 /\ ruleBasedResults = <<>> /\ finalResults = <<>> /\ fetchCalls = <<>>
  /\ geminiKey = FALSE /\ aiOutcome = NoOutcome /\ rerun = NoRerun

\* setTimeout(fn, delay) called on page p
SetTimeout(p, fn, delay) ==
  [p EXCEPT !.timers = @ \cup {[fn |-> fn, due |-> p.clock + delay,
                                seq |-> Cardinality(p.timers) + p.initializeAppRuns
                                          + p.uncaught]}]

\* robustInitialize() called on page p
robustInitialize(p) ==
  IF p.initialized THEN p
  ELSE SetTimeout([p EXCEPT !.initialized = TRUE], "robustTimer", RobustDelay)

\* the anonymous DOMContentLoaded listeners
LegacyListener(p) == SetTimeout(p, "initializeApp", LegacyDelay)

RunListener(p, name) ==
  IF name = "robustInitialize" THEN robustInitialize(p) ELSE LegacyListener(p)

RECURSIVE RunListeners(_, _)
RunListeners(p, names) ==
  IF names = <<>> THEN p
  ELSE RunListeners(RunListener(p, Head(names)), Tail(names))

\* initializeApp() up to the end of setupEventListeners: the listeners on
\* elements that exist are added; addEventListener ignores a listener that
\* is already registered, debounce(...) returns a new function every time
initializeApp(p) ==
  [p EXCEPT !.initializeAppRuns = @ + 1,
            !.registered = @ \cup {"keydown"} \cup (p.elements \ {"customerSearch"}),
            !.searchListeners = IF "customerSearch" \in p.elements THEN @ + 1 ELSE @]

\* the script is evaluated: it attaches robustInitialize or schedules it, and
\* adds the two anonymous listeners
PageScriptRun ==
  /\ route = "page" /\ ~page.scriptRan
  /\ page' = LET p == [page EXCEPT !.scriptRan = TRUE]
             IN IF p.readyState = "loading"
                  THEN [p EXCEPT !.listeners =
                          <<"robustInitialize", "anonymous2970", "anonymous3196">>]
                  ELSE [SetTimeout(p, "robustInitialize", 0) EXCEPT !.listeners =
                          <<"anonymous2970", "anonymous3196">>]
  /\ UNCHANGED <<pipelineVars, today, verdict, ruleFiltered, analysisResult, aiCalls,
                 ruleEvals, ruleBasedResults, finalResults, fetchCalls, geminiKey,
                 aiOutcome, rerun>>

\* the document fires DOMContentLoaded, once, unless it had fired before the
\* script was evaluated
PageDomContentLoaded ==
  /\ route = "page" /\ page.scriptRan /\ ~page.fired
  /\ page.readyState \in {"loading", "interactive"}
  /\ page' = [RunListeners(page, page.listeners) EXCEPT !.fired = TRUE,
                                                         !.readyState = "complete"]
  /\ UNCHANGED <<pipelineVars, today, verdict, ruleFiltered, analysisResult, aiCalls,
                 ruleEvals, ruleBasedResults, finalResults, fetchCalls, geminiKey,
                 aiOutcome, rerun>>

\* a timer that is due first fires; initializeApp may throw after
\* setupEventListeners, which the robust timer catches and the others do not
PageTimerFire ==
  /\ route = "page"
  /\ \E t \in page.timers :
       /\ \A u \in page.timers : t.due <= u.due
       /\ \E threw \in BOOLEAN :
            LET p == [page EXCEPT !.timers = @ \ {t}, !.clock = t.due]
            IN page' =
                 CASE t.fn = "robustInitialize" -> robustInitialize(p)
                   [] t.fn = "robustTimer" ->
                        [initializeApp(p) EXCEPT !.loadingScreen = FALSE]
                   [] t.fn = "initializeApp" ->
                        [initializeApp(p) EXCEPT !.uncaught = IF threw THEN @ + 1 ELSE @]
  /\ UNCHANGED <<pipelineVars, today, verdict, ruleFiltered, analysisResult, aiCalls,
                 ruleEvals, ruleBasedResults, finalResults, fetchCalls, geminiKey,
                 aiOutcome, rerun>>

NextPage == PageScriptRun \/ PageDomContentLoaded \/ PageTimerFire

SpecPage == InitPage /\ [][NextPage]_vars

-----------------------------------------------------------------------------
(***************************************************************************)
(* Vocabulary of the properties.                                           *)
(***************************************************************************)
N == Len(customers)
Done == pc = "done"
\* the handler has run its first step
Started == pc \notin {"validate", "rejected", "start"}
Answered == Done /\ response.kind \in {"json", "return"}

\* sendLetter was invoked for account a and threw / resolved
MailerFailed(a) == calls[a] > 0 /\ doneAt[a] >= 0 /\ (~transporter \/ raised[a] # NoError)
MailerSucceeded(a) == calls[a] > 0 /\ doneAt[a] >= 0 /\ transporter /\ raised[a] = NoError
\* generateLetterContent was invoked for account a and threw
RenderFailed(a) == calls[a] > 0 /\ raised[a] # NoError

IsFailed(r) == IF route = "sendBulkEmails" THEN r.success = FALSE ELSE r.status = "failed"
IsSent(r) == IF route = "sendBulkEmails" THEN r.success = TRUE ELSE r.status = "sent"

InInputOrder(list) == \A k \in 1..Len(list) : list[k].customer = customers[k].ACCOUNT_NO

\* C1: when the mailer throws for one item, that item is recorded as failed
\* and every other item, of the same and of every later batch, is still
\* processed and gets its own result; the request is answered normally.
\* (sendBulkEmails refuses to start without a transporter: that is not a
\* per-item failure.)
C1_FailureIsolation ==
  (route \in EmailRoutes /\ Done /\ (route = "sendBulkEmails" => transporter)) =>
    /\ response.kind \in {"json", "return"}
    /\ Len(response.results) = N
    /\ \A k \in 1..N :
         /\ response.results[k].customer = customers[k].ACCOUNT_NO
         /\ (HasEmail(customers[k]) => calls[k] = 1)
         /\ (MailerFailed(k) => IsFailed(response.results[k]))
         /\ (MailerSucceeded(k) => IsSent(response.results[k]))

C1_Witness ==
  /\ route = "bulkSend" /\ Done
  /\ Len(batches) >= 2
  /\ MailerFailed(1) /\ response.results[1].status = "failed"
  /\ MailerSucceeded(N) /\ response.results[N].status = "sent"

(***************************************************************************)
(* C2                                                                      *)
(***************************************************************************)
StatsRoutes == {"send", "bulkSend", "generate", "bulkGenerate"}

OperationFailed(k) == IF route \in EmailRoutes THEN MailerFailed(k) ELSE RenderFailed(k)
\* the operation failed on every item it was run on
AlwaysFailing == \A k \in 1..N : calls[k] > 0 => OperationFailed(k)

ReportedFailed ==
  IF route = "bulkGenerate" THEN response.summary.totalErrors
  ELSE response.statistics.failed
ReportedSucceeded ==
  CASE route \in {"send", "bulkSend"} -> response.statistics.sent
    [] route = "generate" -> response.statistics.successful
    [] route = "bulkGenerate" -> response.summary.totalGenerated
\* the per-item list of the response that holds the failures
FailureList == IF route \in EmailRoutes THEN response.results ELSE response.errors
SkippedCount ==
  IF route \in EmailRoutes
    THEN Cardinality({k \in 1..N : ~HasEmail(customers[k])})
    ELSE 0

\* C2 as stated: with an operation that fails on every item, failed == k and
\* succeeded == 0, and the result list has k entries in input order.
C2_AllFailAsStated ==
  (route \in StatsRoutes /\ Done /\ AlwaysFailing) =>
    /\ ReportedFailed = N
    /\ ReportedSucceeded = 0
    /\ Len(FailureList) = N
    /\ InInputOrder(FailureList)

\* C2 amended: with an operation that fails on every item, failed == k minus
\* the number of items skipped for having no email address (so failed == k
\* when every item has one, and always in the letter routes), succeeded == 0,
\* and the result list has k entries, the i-th for the i-th input item.
C2_AllFail ==
  (route \in StatsRoutes /\ Done /\ AlwaysFailing) =>
    /\ ReportedFailed = N - SkippedCount
    /\ ReportedSucceeded = 0
    /\ Len(FailureList) = N
    /\ InInputOrder(FailureList)

C2_Witness ==
  /\ route = "send" /\ Done /\ N = 3
  /\ \A k \in 1..N : MailerFailed(k)
  /\ transporter
  /\ response.statistics.failed = 3

\* C3: the per-item result list is in input order, whatever the order in
\* which the sends of a batch complete.
C3_InputOrder ==
  route \in EmailRoutes =>
    /\ InInputOrder(results)
    /\ (Answered => response.results = results /\ Len(results) = N)

C3_Witness ==
  /\ route = "sendBulkEmails"
  /\ completed = <<2, 1>>
  /\ itemPc = <<>>
  /\ Len(results) >= 2

\* C4: an item without an email address is recorded as skipped with a
\* reason, and sendLetter is never invoked for it, in every dispatch path.
C4_NoEmailNeverMailed ==
  route \in EmailRoutes =>
    /\ \A k \in 1..N : ~HasEmail(customers[k]) => calls[k] = 0
    /\ Answered =>
         \A k \in 1..N : ~HasEmail(customers[k]) =>
            /\ response.results[k].status = "skipped"
            /\ response.results[k].reason # Undefined

\* C5: the mailer fails for exactly the second of three customers that all
\* have an email address, one batch of size 3: total 3, sent 2, failed 1,
\* skipped 0, results in input order.
C5_SecondOfThreeFails ==
  ( /\ route \in {"send", "bulkSend"} /\ Done
    /\ N = 3
    /\ \A k \in 1..N : HasEmail(customers[k])
    /\ (route = "bulkSend" => EmailBatchSize = 3)
    /\ MailerSucceeded(1) /\ MailerFailed(2) /\ MailerSucceeded(3) ) =>
    /\ response.statistics = [total |-> 3, sent |-> 2, failed |-> 1, skipped |-> 0]
    /\ InInputOrder(response.results)
    /\ Len(response.results) = 3
    /\ response.results[1].status = "sent"
    /\ response.results[2].status = "failed"
    /\ response.results[3].status = "sent"

C5_Witness ==
  /\ route = "bulkSend" /\ Done
  /\ N = 3 /\ Len(batches) = 1
  /\ MailerSucceeded(1) /\ MailerFailed(2) /\ MailerSucceeded(3)
  /\ response.statistics.failed = 1

\* C6: splitting with batch size n >= 1 gives consecutive chunks in input
\* order, each of at most n items and all but possibly the last of exactly n,
\* whose concatenation is the input list.
SplitSize == IF route = "bulkSend" THEN EmailBatchSize ELSE LetterBatchSize

C6_SplitPartition ==
  (route \in {"bulkSend", "bulkGenerate"} /\ Started) =>
    /\ Flatten(batches) = customers
    /\ \A b \in 1..Len(batches) :
         /\ Len(batches[b]) >= 1
         /\ Len(batches[b]) <= SplitSize
         /\ (b < Len(batches) => Len(batches[b]) = SplitSize)

C6_Witness ==
  /\ route = "bulkGenerate" /\ Started
  /\ N = 3 /\ SplitSize = 2
  /\ Len(batches) = 2 /\ Len(batches[1]) = 2 /\ Len(batches[2]) = 1

(***************************************************************************)
(* C7                                                                      *)
(***************************************************************************)
\* 0-based batch of the k-th input item (/send has no batches)
BatchOf(k) ==
  CASE route = "bulkSend" -> (k - 1) \div EmailBatchSize
    [] route = "sendBulkEmails" -> (k - 1) \div maxConcurrent
    [] OTHER -> 0

\* The request's inter-item and inter-batch delay options: options.delayMs
\* and options.batchDelayMs in the routes; in sendBulkEmails options.delayMs
\* is the pause between batches and delayMs / maxConcurrent the stagger.
ConfiguredItemDelay ==
  IF route = "sendBulkEmails" THEN StaggerDelay(1) ELSE delayBetweenEmails
ConfiguredBatchDelay == IF route = "bulkSend" THEN delayBetweenBatches ELSE delayMs

ConsecutiveSends(a, b) ==
  /\ a < b /\ sendAt[a] >= 0 /\ sendAt[b] >= 0
  /\ BatchOf(a) = BatchOf(b)
  /\ \A c \in 1..N : (a < c /\ c < b) => sendAt[c] < 0

InterBatchDelayHonored ==
  \A a, b \in 1..N :
    (BatchOf(a) < BatchOf(b) /\ sendAt[b] >= 0) =>
       /\ doneAt[a] >= 0
       /\ sendAt[b] - doneAt[a] >= ConfiguredBatchDelay

InterItemDelayHonored ==
  \A a, b \in 1..N :
    ConsecutiveSends(a, b) => sendAt[b] - sendAt[a] >= ConfiguredItemDelay

\* C7: the configured inter-batch delay elapses between the last result of a
\* batch and the first send of the next; the configured inter-item delay
\* separates consecutive sends inside a batch.
C7_PausesHonored ==
  route \in EmailRoutes => InterBatchDelayHonored /\ InterItemDelayHonored

\* C8: in sendBulkEmails at most maxConcurrent sendLetter calls are in flight,
\* and calls of two different batches are never in flight together.
InFlight == {a \in 1..N : calls[a] > 0 /\ doneAt[a] < 0}

C8_BoundedConcurrency ==
  route = "sendBulkEmails" =>
    /\ Cardinality(InFlight) <= maxConcurrent
    /\ \A a, b \in InFlight : BatchOf(a) = BatchOf(b)

C8_Witness ==
  /\ route = "sendBulkEmails"
  /\ maxConcurrent = 2
  /\ InFlight = {1, 2}
  /\ N = 3

\* C9: a failed result carries the mailer's error message and the error code
\* the transport raised, when it raised one.
C9_FailureCarriesMessageAndCode ==
  (route \in EmailRoutes /\ Answered) =>
    \A k \in 1..N :
      MailerFailed(k) =>
        /\ IsFailed(response.results[k])
        /\ response.results[k].error = sendLetter(raised[k]).message
        /\ (raised[k].code # Undefined => response.results[k].errorCode = raised[k].code)

\* C10: within one email request sendLetter is invoked at most once per input
\* item, whether the call succeeds or fails.
C10_NoRetry ==
  route \in EmailRoutes => \A k \in 1..N : calls[k] <= 1

C10_Witness ==
  /\ route = "send" /\ Done
  /\ N >= 2
  /\ MailerFailed(1) /\ calls[1] = 1
  /\ response.results[1].status = "failed"

-----------------------------------------------------------------------------
\* the PDF renderer was called for the account and failed
PdfFailed(a) ==
  /\ route = "generate" /\ options.generatePDF
  /\ calls[a] > 0 /\ raised[a] = NoError /\ pdfRaised[a] # NoError

\* the letters entry of the account, if any
LetterEntries(a) ==
  {k \in 1..Len(response.letters) : response.letters[k].customerId = a}

(***************************************************************************)
(* C11: in POST /letters/generate with generatePDF, an item whose template *)
(* rendered but whose PDF rendering failed is still in `letters` with its  *)
(* text content and a pdfError, is counted in statistics.successful and    *)
(* not in statistics.failed, and every other item is reported as if the    *)
(* failure had not happened (rendered ones in letters without pdfError,    *)
(* unrendered ones in errors).                                             *)
(***************************************************************************)
C11_PdfFailureKeepsText ==
  (route = "generate" /\ Answered) =>
    /\ \A a \in 1..N :
         PdfFailed(a) =>
           /\ Cardinality(LetterEntries(a)) = 1
           /\ \A k \in LetterEntries(a) :
                /\ response.letters[k].content = "letter text"
                /\ response.letters[k].pdfError = pdfRaised[a].message
           /\ \A k \in 1..Len(errors) : errors[k].customer # a
    /\ response.statistics.successful = Cardinality({a \in 1..N : ~RenderFailed(a)})
    /\ response.statistics.failed = Cardinality({a \in 1..N : RenderFailed(a)})
    /\ \A b \in 1..N :
         (~PdfFailed(b) /\ ~RenderFailed(b)) =>
           /\ Cardinality(LetterEntries(b)) = 1
           /\ \A k \in LetterEntries(b) : response.letters[k].pdfError = Undefined
    /\ \A b \in 1..N :
         RenderFailed(b) =>
           /\ LetterEntries(b) = {}
           /\ \E k \in 1..Len(errors) : errors[k].customer = b

\* three letters with PDF: the first fine, the second's PDF fails, the third's
\* template fails
C11_Witness ==
  /\ route = "generate" /\ Answered /\ N = 3
  /\ ~PdfFailed(1) /\ ~RenderFailed(1)
  /\ PdfFailed(2)
  /\ RenderFailed(3)
  /\ response.statistics.successful = 2

-----------------------------------------------------------------------------
(***************************************************************************)
(* Vocabulary of the rule claims.                                          *)
(***************************************************************************)
RuleCase(t) == route = "rules" /\ body.issueType = t
Subject == customers[1]
ParsesAsNumber(v) == parseFloat(v).t = "number"
ParsedNumber(v) == parseFloat(v).n
LowerOf(v) == toLowerCase(StringOf(v))

\* every evaluator that has decided agrees with the expected decision
EvaluatorsAgreeWith(expected) ==
  /\ verdict.server # "pending" => (verdict.server = "match" <=> expected)
  /\ verdict.browser # "pending" => (verdict.browser = "match" <=> expected)

\* whole days since the customer's LAST_TRANSACTION, 9999 when it is missing
\* or is not a date
ExpectedDaysSince(c) ==
  IF c.LAST_TRANSACTION.t = "string" /\ IsIsoDate(c.LAST_TRANSACTION.s)
    THEN today - IsoDay(c.LAST_TRANSACTION.s)
    ELSE 9999

\* C13: under account_closure a customer (with a BALANCE that parses) matches
\* exactly when the parsed BALANCE is <= 100 or the whole days since
\* LAST_TRANSACTION exceed 90, a missing or unparseable date counting as 9999
\* days; stated for both evaluators.
C13_AccountClosureRule ==
  (RuleCase("account_closure") /\ ParsesAsNumber(Subject.BALANCE)) =>
    EvaluatorsAgreeWith(ParsedNumber(Subject.BALANCE) <= 100
                        \/ ExpectedDaysSince(Subject) > 90)

ExpectedClosurePriority(balance) ==
  IF balance = 0 THEN "high"
  ELSE IF 0 < balance /\ balance < 50 THEN "medium"
  ELSE "low"

\* C14: a customer matched by account_closure gets priority high for balance
\* 0, medium for 0 < balance < 50 and low for every other balance, and a
\* customer with BALANCE == 0 matches with priority high.
C14_ClosurePriority ==
  (RuleCase("account_closure") /\ ParsesAsNumber(Subject.BALANCE)) =>
    /\ verdict.browser = "match" =>
         verdict.priority = ExpectedClosurePriority(ParsedNumber(Subject.BALANCE))
    /\ (verdict.browser # "pending" /\ Subject.BALANCE = Num(0)) =>
         (verdict.browser = "match" /\ verdict.priority = "high")

\* C15: under kyc_update a customer matches exactly when EMAIL is empty, or
\* MOBILE is empty, or KYC_STATUS contains expired or pending in any letter
\* case, or KYC_STATUS is empty or missing; stated for both evaluators.
C15_KycRule ==
  RuleCase("kyc_update") =>
    EvaluatorsAgreeWith(\/ ~Truthy(Subject.EMAIL)
                        \/ ~Truthy(Subject.MOBILE)
                        \/ includes(LowerOf(Subject.KYC_STATUS), ChExpired)
                        \/ includes(LowerOf(Subject.KYC_STATUS), ChPending)
                        \/ ~Truthy(Subject.KYC_STATUS))

CompleteKyc(c) ==
  Truthy(c.EMAIL) /\ Truthy(c.MOBILE) /\ c.KYC_STATUS = Str(ChComplete)

\* C16: a customer with a non-empty EMAIL, a non-empty MOBILE and KYC_STATUS
\* "Complete" is matched under kyc_update by neither evaluator.
C16_CompleteKycNotMatched ==
  (RuleCase("kyc_update") /\ CompleteKyc(Subject)) =>
    (verdict.server # "match" /\ verdict.browser # "match")

C16_Witness ==
  /\ RuleCase("kyc_update") /\ CompleteKyc(Subject)
  /\ verdict.server = "no match" /\ verdict.browser = "no match"

\* the integer parsed from DAYS_TO_EXPIRY, 9999 when missing or unparsable
ExpectedDaysToExpiry(c) ==
  IF ParsesAsNumber(c.DAYS_TO_EXPIRY) THEN ParsedNumber(c.DAYS_TO_EXPIRY) ELSE 9999

\* C17: under document_expiry a customer matches exactly when DOC_STATUS is
\* expiring or expired in any letter case or the integer parsed from
\* DAYS_TO_EXPIRY is <= 60 (9999 when missing or unparsable, so 0 matches);
\* stated for both evaluators.
C17_DocumentExpiryRule ==
  RuleCase("document_expiry") =>
    EvaluatorsAgreeWith(\/ LowerOf(Subject.DOC_STATUS) = ChExpiring
                        \/ LowerOf(Subject.DOC_STATUS) = ChExpired
                        \/ ExpectedDaysToExpiry(Subject) <= 60)

\* C18: under fee_waiver a customer matches exactly when AGE > 60, or
\* ACCOUNT_TYPE is student ignoring case, or CUSTOMER_CATEGORY contains
\* senior ignoring case; stated for both evaluators.
C18_FeeWaiverRule ==
  RuleCase("fee_waiver") =>
    EvaluatorsAgreeWith(\/ (ParsesAsNumber(Subject.AGE) /\ ParsedNumber(Subject.AGE) > 60)
                        \/ LowerOf(Subject.ACCOUNT_TYPE) = ChStudent
                        \/ includes(LowerOf(Subject.CUSTOMER_CATEGORY), ChSenior))

\* the customer with 0 in place of every numeric rule field that is missing
\* or does not parse
ZeroedNumbers(c) ==
  [c EXCEPT !.BALANCE = IF ParsesAsNumber(@) THEN @ ELSE Num(0),
            !.OUTSTANDING_AMOUNT = IF ParsesAsNumber(@) THEN @ ELSE Num(0),
            !.AGE = IF ParsesAsNumber(@) THEN @ ELSE Num(0)]

\* C19: a numeric field (BALANCE, OUTSTANDING_AMOUNT, AGE) that is missing or
\* does not parse is treated as 0 by the rule's comparison: each evaluator
\* decides as it does for the same customer with 0 in that field.
C19_UnparsableNumberIsZero ==
  route = "rules" =>
    /\ verdict.server # "pending" =>
         (verdict.server = "match" <=> ServerMatches(ZeroedNumbers(Subject), body.issueType))
    /\ verdict.browser # "pending" =>
         (verdict.browser = "match" <=> BrowserMatches(ZeroedNumbers(Subject), body.issueType))

(***************************************************************************)
(* C12                                                                     *)
(***************************************************************************)
\* the validation errors of the request, read off what was sent
CustomersInvalid == ~body.customersGiven \/ Len(customers) = 0
IssueTypeInvalid == body.issueType \notin IssueTypes
BatchSizeInvalid ==
  /\ route \in {"send", "bulkSend", "generate", "bulkGenerate"}
  /\ "batchSize" \in body.optionKeys
  /\ options.batchSize < 1
InvalidRequest ==
  route \in ValidatedRoutes /\ (CustomersInvalid \/ IssueTypeInvalid \/ BatchSizeInvalid)

\* nothing was evaluated, rendered, mailed or scored
NothingProcessed ==
  /\ ruleEvals = 0 /\ ruleFiltered = <<>> /\ aiCalls = <<>>
  /\ \A k \in 1..Len(customers) :
       calls[k] = 0 /\ sendAt[k] = -1 /\ raised[k] = NoError /\ pdfRaised[k] = NoError
  /\ results = <<>> /\ errors = <<>> /\ batches = <<>> /\ batchResults = <<>>

\* C12: a request with an empty or missing customers array, an issue type
\* outside the five allowed values, or a batchSize below 1 never reaches its
\* handler: no rule is evaluated, no letter rendered, no mailer or scoring
\* call made, and the only answer it gets is the 400 validation error.
C12_ValidationBeforeProcessing ==
  InvalidRequest =>
    /\ pc \in {"validate", "rejected"}
    /\ NothingProcessed
    /\ (pc = "rejected" =>
          /\ response.kind = "invalid" /\ response.status = 400
          /\ response.error = "Validation failed"
          /\ response.field \in {"customers", "issueType", "options"})
    /\ (pc = "validate" => response = NoResponse)

C12_Witness ==
  /\ route = "bulkSend" /\ pc = "rejected"
  /\ ~CustomersInvalid /\ ~IssueTypeInvalid /\ BatchSizeInvalid
  /\ transporter /\ Len(customers) = MaxItems
  /\ response.field = "options"

(***************************************************************************)
(* C20                                                                     *)
(***************************************************************************)
\* positions of the input records the rule of the evaluator in use matches
RuleMatchPositions ==
  {k \in 1..Len(customers) :
     IF route = "analyze"
       THEN ServerMatches(normalizeAccountKey(customers[k]), body.issueType)
       ELSE BrowserMatches(customers[k], body.issueType)}

\* place of the k-th input record among the matches
RankOf(k) == Cardinality({j \in RuleMatchPositions : j <= k})

\* the input record as the evaluator in use hands it on
HandedOn(k) ==
  IF route = "analyze" THEN normalizeAccountKey(customers[k]) ELSE customers[k]

\* the list the classification returned
ReturnedList ==
  IF route = "analyze" THEN response.analysis.customers ELSE response.filteredCustomers

ScoringRan == IF route = "analyze" THEN aiCalls # <<>> ELSE fetchCalls # <<>>

\* C20: the list returned by classification holds exactly the input records
\* the rule matches, in input order, whether or not the scoring collaborator
\* was called and whatever it answered, also when there are more matches
\* than were submitted to it.
C20_ReturnedListIsRuleMatches ==
  (route \in AnalysisRoutes /\ Done) =>
    /\ Len(ReturnedList) = Cardinality(RuleMatchPositions)
    /\ \A k \in RuleMatchPositions : ReturnedList[RankOf(k)].customer = HandedOn(k)

C20_Witness ==
  /\ route = "analyze" /\ Done /\ ScoringRan
  /\ response.analysis.aiEnhanced
  /\ Len(aiCalls[1]) = ScoringCap
  /\ Len(ReturnedList) = ScoringCap + 1
  /\ ReturnedList[1].aiConfidence = Num(50)
  /\ response.analysis.finalMatches < Len(ReturnedList)

(***************************************************************************)
(* C21                                                                     *)
(***************************************************************************)
\* scoring was asked for and did not deliver an analysis
ScoringFailed ==
  /\ options.useAI
  /\ IF route = "analyze"
       THEN ~geminiKey \/ aiOutcome.kind \in {"throw", "no analysis"}
       ELSE aiOutcome.kind \in {"network error", "http error"}

\* the k-th input record as a pure rule-based match
IsRuleBasedEntry(entry, k) ==
  /\ entry.customer = HandedOn(k)
  /\ IF route = "analyze"
       THEN entry.aiConfidence = Missing /\ entry.aiPriority = Undefined
            /\ entry.aiReason = Undefined
       ELSE entry.confidence = 85
            /\ entry.priority = determinePriority(customers[k], body.issueType)

\* C21: when scoring was requested and failed (the call threw, the answer had
\* no analysis array or could not be parsed, or no API key is configured) the
\* classification still answers successfully with the pure rule-based result:
\* the rule matches in input order, finalMatches equal to their number, and
\* the confidence label 'rule-based'.
C21_ScoringFailureFallsBack ==
  (route \in AnalysisRoutes /\ Done /\ ScoringFailed) =>
    /\ Len(ReturnedList) = Cardinality(RuleMatchPositions)
    /\ \A k \in RuleMatchPositions : IsRuleBasedEntry(ReturnedList[RankOf(k)], k)
    /\ (route = "analyze" =>
          /\ response.kind = "json" /\ response.success
          /\ response.analysis.finalMatches = Cardinality(RuleMatchPositions)
          /\ response.analysis.ruleBasedMatches = Cardinality(RuleMatchPositions)
          /\ response.analysis.confidence = "rule-based"
          /\ ~response.analysis.aiEnhanced)

C21_Witness ==
  /\ route = "analyze" /\ Done /\ ScoringFailed /\ geminiKey
  /\ aiOutcome.kind = "throw"
  /\ response.analysis.aiError = "AI analysis failed: Invalid JSON response from AI"
  /\ Len(customers) = MaxAnalyzed
  /\ Cardinality(RuleMatchPositions) = 1

(***************************************************************************)
(* C22                                                                     *)
(***************************************************************************)
ScoringSucceeded == route = "analyze" /\ Done /\ aiOutcome.kind = "analysis"

\* the collaborator's entries for the k-th input record, looked up by account
\* number without regard to letter case
EntriesFor(k) ==
  {j \in 1..Len(aiOutcome.analysis) :
     /\ LowerOf(HandedOn(k).ACCOUNT_NO) # <<>>
     /\ LowerOf(aiOutcome.analysis[j].account_no) = LowerOf(HandedOn(k).ACCOUNT_NO)}

\* the priority the rule evaluator computes for the k-th input record
RulePriority(k) == determinePriority(HandedOn(k), body.issueType)

\* C22: after a successful scoring call, a rule-based match without a
\* collaborator entry gets confidence 0.8, the priority the rule evaluator
\* computed for it and the reason "Rule-based match"; a match with an entry
\* gets the entry's confidence, priority and reason.
C22_ScoringDefaults ==
  ScoringSucceeded =>
    \A k \in RuleMatchPositions :
      LET entry == ReturnedList[RankOf(k)]
      IN IF EntriesFor(k) = {}
           THEN /\ entry.aiConfidence = Num(80)
                /\ entry.aiPriority = RulePriority(k)
                /\ entry.aiReason = "Rule-based match"
           ELSE \E j \in EntriesFor(k) :
                  /\ entry.aiConfidence = aiOutcome.analysis[j].confidence
                  /\ entry.aiPriority = aiOutcome.analysis[j].priority
                  /\ entry.aiReason = aiOutcome.analysis[j].reason

(***************************************************************************)
(* C23                                                                     *)
(***************************************************************************)
\* the threshold the caller asked for, in hundredths: options.minConfidence,
\* or options.confidenceThreshold of the request schema, or none
CallerThreshold ==
  IF "minConfidence" \in body.optionKeys THEN options.minConfidence
  ELSE IF "confidenceThreshold" \in body.optionKeys THEN Num(options.confidenceThreshold)
  ELSE Num(DefaultMinConfidence)

\* C23: after a successful scoring call, finalMatches is the number of
\* returned matches whose confidence is at least the caller's threshold (0.7
\* when the caller gave none), and the returned list still holds every
\* match, also those below the threshold.
C23_FinalMatchesUsesCallerThreshold ==
  ScoringSucceeded =>
    /\ response.analysis.finalMatches =
         Cardinality({k \in 1..Len(ReturnedList) :
                        AtLeast(ReturnedList[k].aiConfidence, CallerThreshold)})
    /\ Len(ReturnedList) = Cardinality(RuleMatchPositions)

(***************************************************************************)
(* C24                                                                     *)
(***************************************************************************)
\* the records of a list submitted for scoring
SubmittedRecord(list, j) == IF route = "analyze" THEN list[j] ELSE list[j].customer

\* the list is made of the first matches, in order
IsFirstMatches(list) ==
  /\ Len(list) <= Cardinality(RuleMatchPositions)
  /\ \A k \in RuleMatchPositions :
       RankOf(k) <= Len(list) => SubmittedRecord(list, RankOf(k)) = HandedOn(k)

\* the lists submitted to scoring: by the route to aiService.analyzeCustomers,
\* by the browser to POST /customers/analyze
SubmittedLists ==
  {aiCalls[c] : c \in 1..Len(aiCalls)}
  \cup {fetchCalls[c].customers : c \in 1..Len(fetchCalls)}

ScoringEnabled == options.useAI /\ (route = "analyze" => geminiKey)

\* C24: the scoring collaborator is called only when scoring is enabled and
\* at least one customer matched, and it is given at most the cap of 100
\* matches: the first ones of the match list, in order.
C24_ScoringCallGuard ==
  route \in AnalysisRoutes =>
    \A list \in SubmittedLists :
      /\ ScoringEnabled
      /\ Cardinality(RuleMatchPositions) >= 1
      /\ Len(list) <= ScoringCap
      /\ IsFirstMatches(list)

(***************************************************************************)
(* C25                                                                     *)
(***************************************************************************)
SecondRunDone == route = "rules" /\ rerun.server # "pending"

SameDecision ==
  /\ rerun.server = verdict.server
  /\ rerun.browser = verdict.browser
  /\ rerun.priority = verdict.priority

RulesEvaluated == route = "analyze" /\ ruleEvals > 0

\* the k-th input record as it reached rule evaluation (for a match)
Evaluated(k) == ruleFiltered[RankOf(k)]

InputUntouched ==
  \A k \in 1..Len(customers) : \E kind \in CustomerKinds : customers[k] = AnalyzeCustomer(k, kind)

\* C26: every record that reaches rule evaluation in POST /analyze has a
\* non-empty ACCOUNT_NO; normalization copies the value of a variant key onto
\* ACCOUNT_NO, never replaces a non-empty ACCOUNT_NO by another key's value,
\* and never modifies the caller's input record.
C26_NormalizedAccountNo ==
  RulesEvaluated =>
    /\ \A k \in RuleMatchPositions :
         /\ Truthy(Evaluated(k).ACCOUNT_NO)
         /\ (Truthy(customers[k].ACCOUNT_NO) =>
               Evaluated(k).ACCOUNT_NO = customers[k].ACCOUNT_NO)
         /\ (~Truthy(customers[k].ACCOUNT_NO) /\ Truthy(customers[k].accountNo) =>
               Evaluated(k).ACCOUNT_NO = customers[k].accountNo)
    /\ InputUntouched

(***************************************************************************)
(* C27                                                                     *)
(***************************************************************************)
Priorities == {"high", "medium", "low"}

\* a confidence in hundredths within [0, 1]
InUnitRange(v) == v.t = "number" /\ 0 <= v.n /\ v.n <= 100

\* C27: every match returned after scoring has a confidence within [0, 1]
\* and a priority among high, medium and low, whatever the scoring
\* collaborator returned.
C27_ConfidenceAndPriorityRange ==
  ScoringSucceeded =>
    \A k \in 1..Len(ReturnedList) :
      /\ InUnitRange(ReturnedList[k].aiConfidence)
      /\ ReturnedList[k].aiPriority \in Priorities

(***************************************************************************)
(* C28                                                                     *)
(***************************************************************************)
BatchRunStarted == route \in {"send", "bulkSend"} /\ pc = "start"

\* the response holds exactly one result per input item, in input order
OneResultPerItem ==
  /\ response.kind = "json"
  /\ Len(response.results) = N
  /\ \A k \in 1..N :
       /\ response.results[k].customer = customers[k].ACCOUNT_NO
       /\ response.results[k].status \in {"sent", "failed", "skipped"}

\* C28: once the handler of POST /email/send or POST /email/bulk-send has
\* started, it eventually responds, for every input and every pattern of
\* mailer successes and failures, and the response then holds exactly one
\* result (sent, failed or skipped) per input item.
C28_BatchRunCompletes ==
  BatchRunStarted ~> (Done /\ OneResultPerItem)

C28_Witness ==
  /\ route = "bulkSend" /\ Done /\ OneResultPerItem
  /\ N = 3 /\ Len(batches) = 3
  /\ response.results[1].status = "sent"
  /\ response.results[2].status = "failed"
  /\ response.results[3].status = "skipped"

(***************************************************************************)
(* C29                                                                     *)
(***************************************************************************)
\* C29: the counts of every response add up: sent + failed + skipped ==
\* total == number of input customers for /send and /bulk-send, successful +
\* failed == totalRequested for /generate, totalGenerated + totalErrors ==
\* totalRequested for /bulk-generate.
C29_CountsConserved ==
  (route \in StatsRoutes /\ Done /\ response.kind = "json") =>
    CASE route \in {"send", "bulkSend"} ->
           /\ response.statistics.sent + response.statistics.failed
                + response.statistics.skipped = response.statistics.total
           /\ response.statistics.total = Len(customers)
      [] route = "generate" ->
           /\ response.statistics.successful + response.statistics.failed
                = response.statistics.totalRequested
           /\ response.statistics.totalRequested = Len(customers)
      [] route = "bulkGenerate" ->
           /\ response.summary.totalGenerated + response.summary.totalErrors
                = response.summary.totalRequested
           /\ response.summary.totalRequested = Len(customers)

C29_Witness ==
  /\ route = "send" /\ Done /\ response.kind = "json"
  /\ Len(customers) = 3
  /\ response.statistics = [total |-> 3, sent |-> 1, failed |-> 1, skipped |-> 1]

(***************************************************************************)
(* C30                                                                     *)
(***************************************************************************)
\* C30: during one page load initializeApp, and with it the registration of
\* the upload, issue-type and keyboard listeners, is executed at most once,
\* in whatever order the DOMContentLoaded listeners and the timers fire.
C30_InitializeAppOnce ==
  route = "page" => page.initializeAppRuns <= 1

=============================================================================
